---- MODULE Spec2Model ----
(***************************************************************************)
(* Employee Management System API (Flask / SQLAlchemy / flask-jwt-extended)*)
(*                                                                         *)
(* The model follows backend/app: the Employee and Admin tables, the       *)
(* request handlers of routes/employees.py and routes/auth.py, the field   *)
(* validators of utils/validators.py and the admin_required gate of        *)
(* utils/security.py.                                                      *)
(*                                                                         *)
(* Text is a sequence of one-character strings, so that strip(), lower(),  *)
(* the length checks and the regular expressions of the validators are     *)
(* computed on the characters.  Money is an integer number of hundredths.  *)
(* Timestamps are values of a logical clock.  The audit columns            *)
(* created_at / updated_at are not modelled.                               *)
(***************************************************************************)
EXTENDS Integers, Sequences, FiniteSets, TLC

(***************************************************************************)
(* Bounds of the model                                                     *)
(***************************************************************************)
MaxId == 2
MaxClock == 2
MaxJti == 2
NumWorkers == 2
MaxRefresh == 1

(***************************************************************************)
(* Characters and text                                                     *)
(***************************************************************************)
LowerSeq == <<"a","b","c","d","e","f","g","h","i","j","k","l","m",
              "n","o","p","q","r","s","t","u","v","w","x","y","z">>
UpperSeq == <<"A","B","C","D","E","F","G","H","I","J","K","L","M",
              "N","O","P","Q","R","S","T","U","V","W","X","Y","Z">>
DigitSeq == <<"0","1","2","3","4","5","6","7","8","9">>

Range(s) == {s[i] : i \in DOMAIN s}

LowerChars == Range(LowerSeq)
UpperChars == Range(UpperSeq)
DigitChars == Range(DigitSeq)
LetterChars == LowerChars \cup UpperChars
AlnumChars == LetterChars \cup DigitChars

IndexOf(seq, c) == CHOOSE i \in DOMAIN seq : seq[i] = c

\* str.lower() on one character
LowerChar(c) == IF c \in UpperChars THEN LowerSeq[IndexOf(UpperSeq, c)] ELSE c

\* str.lower()
Lower(s) == [i \in DOMAIN s |-> LowerChar(s[i])]

\* characters str.strip() removes (only the space is used by the inputs)
WhiteChars == {" "}

RECURSIVE LStrip(_)
LStrip(s) == IF s # <<>> /\ Head(s) \in WhiteChars THEN LStrip(Tail(s)) ELSE s

RECURSIVE RStrip(_)
RStrip(s) ==
    IF s # <<>> /\ s[Len(s)] \in WhiteChars THEN RStrip(SubSeq(s, 1, Len(s) - 1)) ELSE s

\* str.strip()
Strip(s) == RStrip(LStrip(s))

\* str.replace(c, '') for a single character c
RECURSIVE RemoveChar(_, _)
RemoveChar(s, c) ==
    IF s = <<>> THEN <<>>
    ELSE IF Head(s) = c THEN RemoveChar(Tail(s), c)
    ELSE <<Head(s)>> \o RemoveChar(Tail(s), c)

\* position of the first c in s at or after i, 0 when there is none
RECURSIVE FindFrom(_, _, _)
FindFrom(s, c, i) ==
    IF i > Len(s) THEN 0 ELSE IF s[i] = c THEN i ELSE FindFrom(s, c, i + 1)

\* s.split(c): the pieces of s between the occurrences of c
RECURSIVE Split(_, _)
Split(s, c) ==
    LET k == FindFrom(s, c, 1)
    IN  IF k = 0 THEN <<s>>
        ELSE <<SubSeq(s, 1, k - 1)>> \o Split(SubSeq(s, k + 1, Len(s)), c)

\* bleach.clean(text, tags=[], strip=True): tags are removed, and what is
\* left of the markup characters is escaped
RECURSIVE BleachClean(_)
BleachClean(s) ==
    IF s = <<>> THEN <<>>
    ELSE IF Head(s) = "<"
         THEN LET k == FindFrom(s, ">", 2)
              IN  IF k = 0 THEN <<"&","l","t",";">> \o BleachClean(Tail(s))
                  ELSE BleachClean(SubSeq(s, k + 1, Len(s)))
    ELSE IF Head(s) = ">" THEN <<"&","g","t",";">> \o BleachClean(Tail(s))
    ELSE IF Head(s) = "&" THEN <<"&","a","m","p",";">> \o BleachClean(Tail(s))
    ELSE <<Head(s)>> \o BleachClean(Tail(s))

\* validators.sanitize_text
sanitize_text(text) == IF text = <<>> THEN text ELSE Strip(BleachClean(text))

AllIn(s, chars) == \A i \in DOMAIN s : s[i] \in chars

(***************************************************************************)
(* utils/validators.py.  A validator returns [ok, value]: value is the     *)
(* normalised value when ok, and the rejection reason otherwise.           *)
(***************************************************************************)
NameMinLen == 2
NameMaxLen == 100
DeptMinLen == 2
DeptMaxLen == 50
AddressMaxLen == 200
TldMinLen == 2
PhoneMinTail == 7
PhoneMaxTail == 15
SalaryMaxCents == 999999999
HireDateMaxAgeYears == 100

EmailLocalChars == AlnumChars \cup {".", "_", "%", "+", "-"}
EmailDomainChars == AlnumChars \cup {".", "-"}

\* ^[a-zA-Z0-9._%+-]+@[a-zA-Z0-9.-]+\.[a-zA-Z]{2,}$
validate_email(email) ==
    /\ email # <<>>
    /\ \E a \in DOMAIN email :
         /\ email[a] = "@"
         /\ a > 1
         /\ AllIn(SubSeq(email, 1, a - 1), EmailLocalChars)
         /\ \E d \in (a + 2)..Len(email) :
              /\ email[d] = "."
              /\ AllIn(SubSeq(email, a + 1, d - 1), EmailDomainChars)
              /\ Len(email) - d >= TldMinLen
              /\ AllIn(SubSeq(email, d + 1, Len(email)), LetterChars)

PhoneTailChars == DigitChars \cup {"-", "(", ")", " "}

\* ^[\+]?[1-9][\d\-\(\)\s]{7,15}$
validate_phone(phone) ==
    IF phone = <<>> THEN TRUE
    ELSE LET body == IF Head(phone) = "+" THEN Tail(phone) ELSE phone
         IN  /\ body # <<>>
             /\ Head(body) \in (DigitChars \ {"0"})
             /\ Len(body) - 1 >= PhoneMinTail
             /\ Len(body) - 1 <= PhoneMaxTail
             /\ AllIn(Tail(body), PhoneTailChars)

DigitVal(c) == IndexOf(DigitSeq, c) - 1

RECURSIVE ParseNat(_)
ParseNat(s) == IF s = <<>> THEN 0 ELSE 10 * ParseNat(SubSeq(s, 1, Len(s) - 1)) + DigitVal(s[Len(s)])

\* the first two fractional digits as hundredths
FracCents(f) ==
    LET d(i) == IF i <= Len(f) THEN DigitVal(f[i]) ELSE 0
    IN  10 * d(1) + d(2)

\* Decimal(text) for plain decimal numerals: [ok, cents, rest]: the value in
\* hundredths, cut after the second fractional digit, and whether a nonzero
\* digit was cut (a positive amount below one hundredth)
ParseDecimal(text) ==
    LET neg == text # <<>> /\ Head(text) = "-"
        unsigned == IF text # <<>> /\ Head(text) \in {"-", "+"} THEN Tail(text) ELSE text
        parts == Split(unsigned, ".")
        int == parts[1]
        frac == IF Len(parts) = 2 THEN parts[2] ELSE <<>>
        wellFormed == /\ Len(parts) <= 2
                      /\ AllIn(int, DigitChars)
                      /\ AllIn(frac, DigitChars)
                      /\ Len(int) + Len(frac) > 0
        mag == 100 * ParseNat(int) + FracCents(frac)
    IN  IF ~wellFormed THEN [ok |-> FALSE, neg |-> FALSE, cents |-> 0, rest |-> FALSE]
        ELSE [ok |-> TRUE, neg |-> neg,
              cents |-> IF neg THEN 0 - mag ELSE mag,
              rest |-> \E i \in 3..Len(frac) : frac[i] # "0"]

\* salary_decimal <= 0
DecimalNotPositive(dec) == dec.neg \/ (dec.cents = 0 /\ ~dec.rest)

\* salary_decimal > Decimal('9999999.99')
DecimalTooLarge(dec) ==
    dec.cents > SalaryMaxCents \/ (dec.cents = SalaryMaxCents /\ dec.rest)

\* A salary of a request is a JSON number [kind |-> "num", cents], a JSON
\* string [kind |-> "str", text] or JSON null [kind |-> "null"].
validate_salary(salary) ==
    IF salary.kind = "null" \/ (salary.kind = "str" /\ salary.text = <<>>)
    THEN [ok |-> FALSE, value |-> "Salary is required"]
    ELSE IF salary.kind = "num"
    THEN IF salary.cents <= 0
         THEN [ok |-> FALSE, value |-> "Salary must be greater than 0"]
         ELSE IF salary.cents > SalaryMaxCents
         THEN [ok |-> FALSE, value |-> "Salary is too large"]
         ELSE [ok |-> TRUE, value |-> salary.cents]
    ELSE LET cleaned == Strip(RemoveChar(RemoveChar(salary.text, "$"), ","))
             dec == ParseDecimal(cleaned)
         IN  IF cleaned = <<>> THEN [ok |-> FALSE, value |-> "Salary is required"]
             ELSE IF ~dec.ok THEN [ok |-> FALSE, value |-> "Invalid salary format"]
             ELSE IF DecimalNotPositive(dec)
             THEN [ok |-> FALSE, value |-> "Salary must be greater than 0"]
             ELSE IF DecimalTooLarge(dec)
             THEN [ok |-> FALSE, value |-> "Salary is too large"]
             ELSE [ok |-> TRUE, value |-> dec.cents]

\* validate_department
validate_department(department) ==
    IF department = <<>> THEN [ok |-> FALSE, value |-> "Department is required"]
    ELSE LET d == sanitize_text(department)
         IN  IF Len(d) < DeptMinLen
             THEN [ok |-> FALSE, value |-> "Department name must be at least 2 characters"]
             ELSE IF Len(d) > DeptMaxLen
             THEN [ok |-> FALSE, value |-> "Department name must be less than 50 characters"]
             ELSE [ok |-> TRUE, value |-> d]

\* validate_position
validate_position(position) ==
    IF position = <<>> THEN [ok |-> FALSE, value |-> "Position is required"]
    ELSE LET p == sanitize_text(position)
         IN  IF Len(p) < DeptMinLen
             THEN [ok |-> FALSE, value |-> "Position must be at least 2 characters"]
             ELSE IF Len(p) > DeptMaxLen
             THEN [ok |-> FALSE, value |-> "Position must be less than 50 characters"]
             ELSE [ok |-> TRUE, value |-> p]

NameChars == LetterChars \cup {" ", "-", "'", "."}

\* validate_name
validate_name(name) ==
    IF name = <<>> THEN [ok |-> FALSE, value |-> "Name is required"]
    ELSE LET n == sanitize_text(name)
         IN  IF Len(n) < NameMinLen
             THEN [ok |-> FALSE, value |-> "Name must be at least 2 characters"]
             ELSE IF Len(n) > NameMaxLen
             THEN [ok |-> FALSE, value |-> "Name must be less than 100 characters"]
             ELSE IF ~AllIn(n, NameChars)
             THEN [ok |-> FALSE, value |-> "Name contains invalid characters"]
             ELSE [ok |-> TRUE, value |-> n]

\* the two status values, as text
Active == <<"A","c","t","i","v","e">>
Inactive == <<"I","n","a","c","t","i","v","e">>

\* validate_status
validate_status(status) ==
    IF status \notin {Active, Inactive}
    THEN [ok |-> FALSE, value |-> "Status must be one of: Active, Inactive"]
    ELSE [ok |-> TRUE, value |-> status]

\* validate_address
validate_address(address) ==
    IF address = <<>> THEN [ok |-> TRUE, value |-> address]
    ELSE LET a == sanitize_text(address)
         IN  IF Len(a) > AddressMaxLen
             THEN [ok |-> FALSE, value |-> "Address must be less than 200 characters"]
             ELSE [ok |-> TRUE, value |-> a]

(***************************************************************************)
(* Dates: [y, m, d].  date.today() is fixed for a run of the model.        *)
(***************************************************************************)
Today == [y |-> 2026, m |-> 6, d |-> 15]

DateLess(a, b) ==
    \/ a.y < b.y
    \/ a.y = b.y /\ a.m < b.m
    \/ a.y = b.y /\ a.m = b.m /\ a.d < b.d

IsLeap(y) == (y % 4 = 0 /\ y % 100 # 0) \/ y % 400 = 0

DaysInMonth(y, m) ==
    IF m = 2 THEN (IF IsLeap(y) THEN 29 ELSE 28)
    ELSE IF m \in {4, 6, 9, 11} THEN 30 ELSE 31

\* the directives %Y, %m and %d of strptime: four digits, one or two digits
IsYearText(t) == Len(t) = 4 /\ AllIn(t, DigitChars)
IsMonthText(t) == Len(t) \in {1, 2} /\ AllIn(t, DigitChars) /\ ParseNat(t) \in 1..12
IsDayText(t) == Len(t) \in {1, 2} /\ AllIn(t, DigitChars) /\ ParseNat(t) \in 1..31

\* datetime.strptime(text, fmt).date() for a format of three directives
\* (given by their order) and one separator: [ok, date]
Strptime(text, order, sep) ==
    LET parts == Split(text, sep)
        pos(k) == CHOOSE i \in 1..3 : order[i] = k
        yt == parts[pos("Y")]
        mt == parts[pos("m")]
        dt == parts[pos("d")]
        bad == [ok |-> FALSE, date |-> [y |-> 0, m |-> 0, d |-> 0]]
    IN  IF Len(parts) # 3 THEN bad
        ELSE IF ~(IsYearText(yt) /\ IsMonthText(mt) /\ IsDayText(dt)) THEN bad
        ELSE IF ParseNat(yt) < 1 \/ ParseNat(dt) > DaysInMonth(ParseNat(yt), ParseNat(mt))
        THEN bad
        ELSE [ok |-> TRUE, date |-> [y |-> ParseNat(yt), m |-> ParseNat(mt), d |-> ParseNat(dt)]]

StrptimeYmd(text) == Strptime(text, <<"Y", "m", "d">>, "-")
StrptimeMdY(text) == Strptime(text, <<"m", "d", "Y">>, "/")
StrptimeDmY(text) == Strptime(text, <<"d", "m", "Y">>, "-")

\* validate_hire_date on a string
validate_hire_date(hire_date_str) ==
    IF hire_date_str = <<>> THEN [ok |-> FALSE, value |-> "Hire date is required"]
    ELSE LET a == StrptimeYmd(hire_date_str)
             b == StrptimeMdY(hire_date_str)
             c == StrptimeDmY(hire_date_str)
             parsed == IF a.ok THEN a ELSE IF b.ok THEN b ELSE c
         IN  IF ~parsed.ok
             THEN [ok |-> FALSE, value |-> "Invalid date format"]
             ELSE IF DateLess(Today, parsed.date)
             THEN [ok |-> FALSE, value |-> "Hire date cannot be in the future"]
             ELSE IF DateLess(parsed.date, [y |-> Today.y - HireDateMaxAgeYears, m |-> 1, d |-> 1])
             THEN [ok |-> FALSE, value |-> "Hire date is too far in the past"]
             ELSE [ok |-> TRUE, value |-> parsed.date]

(***************************************************************************)
(* The state                                                               *)
(*   db        the employees table: id -> row, for the ids that have a row *)
(*   files     the files under UPLOAD_FOLDER: a set of relative paths      *)
(*   clock     datetime.utcnow(), a logical time that advances             *)
(*   admins    the admins table: id -> row                                 *)
(*   issued    the credentials issued so far: [jti, type, sub]             *)
(*   nextJti   the next fresh token identifier                             *)
(*   revoked   routes/auth.py revoked_tokens: a set of token identifiers   *)
(*   resp      the response of the last request handled                    *)
(*   sess      per worker thread, the request it is in the middle of       *)
(*   saved     history: the row of each soft-deleted employee as it was    *)
(*             when the soft delete began                                  *)
(*   loggedOut history: the token identifiers whose logout has completed   *)
(*   hits      the rate limiter: per limited endpoint, the requests of the *)
(*             client counted in the current one-minute window             *)
(***************************************************************************)
VARIABLES db, files, clock, admins, issued, nextJti, revoked, resp, sess, saved, loggedOut,
          hits

vars == <<db, files, clock, admins, issued, nextJti, revoked, resp, sess, saved, loggedOut, hits>>

authVars == <<admins, issued, nextJti, revoked, loggedOut, hits>>

\* the endpoints under @limiter.limit("5 per minute")
LimitedEndpoints == {"login", "upload"}
RateLimit == 5

\* SQL NULL / Python None in a text column, and in a timestamp column
None == <<"None">>
NoTime == 0
NoDate == [y |-> 0, m |-> 0, d |-> 0]
NoSalary == 0 - 2000000000

\* a JSON value that is not a string, where a handler expects one
NonString == <<"#number">>

\* models/employee.py: a new Employee with the column defaults
NewEmployee(name, email, department, position, salary, hire_date) ==
    [name |-> name, email |-> email, phone |-> None, address |-> None,
     department |-> department, position |-> position, salary |-> salary,
     hire_date |-> hire_date, status |-> Active, profile_picture_path |-> None,
     is_deleted |-> FALSE, deleted_at |-> NoTime]

\* Employee.soft_delete
SoftDeleteForgetsStatus(row, now) ==
    [row EXCEPT !.is_deleted = TRUE, !.deleted_at = now]

SoftDeleteWithoutTime(row, now) ==
    [row EXCEPT !.is_deleted = TRUE, !.status = Inactive]

soft_delete(row, now) ==
    [row EXCEPT !.is_deleted = TRUE, !.deleted_at = now, !.status = Inactive]

\* Employee.restore
RestoreKeepsDeletedAt(row) ==
    [row EXCEPT !.is_deleted = FALSE, !.status = Active]

restore(row) ==
    [row EXCEPT !.is_deleted = FALSE, !.deleted_at = NoTime, !.status = Active]

\* Employee.query, Employee.get_active_query, Employee.get_deleted_query: ids
AllIds(d) == DOMAIN d
get_active_query(d) == {i \in DOMAIN d : ~d[i].is_deleted}
get_deleted_query(d) == {i \in DOMAIN d : d[i].is_deleted}

\* the NOT NULL columns an INSERT must fill
NotNullOk(row) ==
    /\ row.name # None
    /\ row.email # None
    /\ row.department # None
    /\ row.position # None
    /\ row.salary # NoSalary
    /\ row.hire_date # NoDate

\* Employee.email is unique=True: over all rows, soft-deleted ones included
EmailFreeUnchecked(d, email, self) == TRUE

EmailFree(d, email, self) == \A j \in DOMAIN d \ {self} : d[j].email # email

\* the id an INSERT gets (SQLite rowid: one more than the largest id)
Max(S) == CHOOSE x \in S : \A y \in S : y <= x
NextRowId(d) == IF DOMAIN d = {} THEN 1 ELSE Max(DOMAIN d) + 1

\* d with a row added or replaced at id, and with the row of id removed
Put(d, id, row) == [i \in DOMAIN d \cup {id} |-> IF i = id THEN row ELSE d[i]]
Drop(d, id) == [i \in DOMAIN d \ {id} |-> d[i]]

(***************************************************************************)
(* Credentials and the admin_required gate                                 *)
(***************************************************************************)
NoToken == [jti |-> 0, type |-> "none", sub |-> 0]

\* check_if_token_revoked
CheckNeverRevoked(jti, rev) == FALSE

CheckRevokedAfterAnyLogout(jti, rev) == rev # {}

check_if_token_revoked(jti, rev) == jti \in rev

\* jwt_required(refresh=...): 200 when the credential passes
jwt_required(tok, wantRefresh, iss, rev) ==
    IF tok = NoToken \/ tok \notin iss THEN 401
    ELSE IF (tok.type = "refresh") # wantRefresh THEN 422
    ELSE IF check_if_token_revoked(tok.jti, rev) THEN 401
    ELSE 200

\* Admin.query.filter_by(id=..., is_active=True).first() finds a row
ActiveAdmin(adm, id) == id \in DOMAIN adm /\ adm[id].is_active

\* admin_required: 200 when the handler body runs
AdminRequiredSkipsLookup(tok, adm, iss, rev) == jwt_required(tok, FALSE, iss, rev)

admin_required(tok, adm, iss, rev) ==
    LET j == jwt_required(tok, FALSE, iss, rev)
    IN  IF j # 200 THEN j
        ELSE IF ~ActiveAdmin(adm, tok.sub) THEN 401
        ELSE 200

(***************************************************************************)
(* Requests and responses                                                  *)
(***************************************************************************)
Get(data, key, default) == IF key \in DOMAIN data THEN data[key] ELSE default

\* request.args.get(key, default, type=int): the default when the argument
\* is not given
NoArg == [given |-> FALSE, value |-> 0]
IntArg(n) == [given |-> TRUE, value |-> n]
ArgInt(raw, default) == IF raw.given THEN raw.value ELSE default

\* the page and per_page of the query string of a listing request
NoQuery == [page |-> NoArg, per_page |-> NoArg]

\* the "pagination" object of a listing; all zero in the other responses
NoPagination ==
    [page |-> 0, per_page |-> 0, total |-> 0, pages |-> 0,
     has_prev |-> FALSE, has_next |-> FALSE]

\* a response: the operation, the id addressed (for a request that stops at
\* the credential, and for the auth endpoints: the jti of the credential
\* presented), the HTTP status, the "error"
\* of the body ("" on success), the per-field errors, the flag of the request
\* (permanent / include_deleted) and the employees returned; the "message"
\* of the body is kept for the 500 answers and for the refusals of an
\* upload ("" in the others), and
\* "query" is the page and per_page that a listing was asked with
Response(op, id, code, error, errors, flag, body) ==
    [op |-> op, id |-> id, code |-> code, error |-> error, errors |-> errors,
     flag |-> flag, body |-> body, pagination |-> NoPagination, message |-> "",
     query |-> NoQuery]

\* what a handler leaves: the table and the response
Outcome(d, r) == [db |-> d, resp |-> r]

\* Employee.to_dict(include_sensitive): the columns a response shows
PublicColumns == {"name", "email", "phone", "address", "department", "position",
                  "salary", "hire_date", "status", "profile_picture_path"}
SensitiveColumns == {"is_deleted", "deleted_at"}

\* the decimal numeral of n, zero-padded to width digits
RECURSIVE Zfill(_, _)
Zfill(n, width) ==
    IF width = 0 THEN <<>>
    ELSE Zfill(n \div 10, width - 1) \o <<DigitSeq[(n % 10) + 1]>>

\* date.isoformat(): YYYY-MM-DD
isoformat(date) == Zfill(date.y, 4) \o <<"-">> \o Zfill(date.m, 2) \o <<"-">> \o Zfill(date.d, 2)

\* salary is shown as float(salary), which the model keeps in hundredths;
\* hire_date is shown as hire_date.isoformat()
to_dict(id, row, include_sensitive) ==
    [id |-> id,
     fields |-> [c \in (IF include_sensitive THEN PublicColumns \cup SensitiveColumns
                        ELSE PublicColumns) |->
                    IF c = "hire_date"
                    THEN (IF row[c] = NoDate THEN None ELSE isoformat(row[c]))
                    ELSE row[c]]]

(***************************************************************************)
(* update_employee: the fields of the request are taken in the order of    *)
(* the code.  st = [emp, errors, raised]: the in-session object, the       *)
(* errors collected so far, and whether an exception was raised.           *)
(***************************************************************************)
\* errors.append(...)
FieldErrorFirstOnly(st, field, msg) ==
    IF st.errors = <<>> THEN [st EXCEPT !.errors = Append(@, <<field, msg>>)] ELSE st

FieldError(st, field, msg) == [st EXCEPT !.errors = Append(@, <<field, msg>>)]

\* data[...].strip() on a value that is no string raises AttributeError
Raise(st) == [st EXCEPT !.raised = TRUE]

ApplyName(st, data) ==
    IF st.raised \/ "name" \notin DOMAIN data THEN st
    ELSE IF data["name"] = NonString THEN Raise(st)
    ELSE LET r == validate_name(Strip(data["name"]))
         IN  IF ~r.ok THEN FieldError(st, "name", r.value)
             ELSE [st EXCEPT !.emp.name = r.value]

ApplyEmailAmongActive(st, data, d, id) ==
    IF st.raised \/ "email" \notin DOMAIN data THEN st
    ELSE IF data["email"] = NonString THEN Raise(st)
    ELSE LET email == Lower(Strip(data["email"]))
         IN  IF ~validate_email(email) THEN FieldError(st, "email", "Invalid email format")
             ELSE IF \E j \in get_active_query(d) \ {id} : d[j].email = email
             THEN FieldError(st, "email", "Employee with this email already exists")
             ELSE [st EXCEPT !.emp.email = email]

ApplyEmail(st, data, d, id) ==
    IF st.raised \/ "email" \notin DOMAIN data THEN st
    ELSE IF data["email"] = NonString THEN Raise(st)
    ELSE LET email == Lower(Strip(data["email"]))
         IN  IF ~validate_email(email) THEN FieldError(st, "email", "Invalid email format")
             ELSE IF \E j \in AllIds(d) \ {id} : d[j].email = email
             THEN FieldError(st, "email", "Employee with this email already exists")
             ELSE [st EXCEPT !.emp.email = email]

ApplyPhone(st, data) ==
    IF st.raised \/ "phone" \notin DOMAIN data THEN st
    ELSE IF data["phone"] = NonString THEN Raise(st)
    ELSE LET phone == Strip(data["phone"])
         IN  IF phone # <<>> /\ ~validate_phone(phone)
             THEN FieldError(st, "phone", "Invalid phone format")
             ELSE [st EXCEPT !.emp.phone = IF phone # <<>> THEN phone ELSE None]

ApplyDepartment(st, data) ==
    IF st.raised \/ "department" \notin DOMAIN data THEN st
    ELSE IF data["department"] = NonString THEN Raise(st)
    ELSE LET r == validate_department(Strip(data["department"]))
         IN  IF ~r.ok THEN FieldError(st, "department", r.value)
             ELSE [st EXCEPT !.emp.department = r.value]

ApplyPosition(st, data) ==
    IF st.raised \/ "position" \notin DOMAIN data THEN st
    ELSE IF data["position"] = NonString THEN Raise(st)
    ELSE LET r == validate_position(Strip(data["position"]))
         IN  IF ~r.ok THEN FieldError(st, "position", r.value)
             ELSE [st EXCEPT !.emp.position = r.value]

ApplySalary(st, data) ==
    IF st.raised \/ "salary" \notin DOMAIN data THEN st
    ELSE LET r == validate_salary(data["salary"])
         IN  IF ~r.ok THEN FieldError(st, "salary", r.value)
             ELSE [st EXCEPT !.emp.salary = r.value]

ApplyHireDate(st, data) ==
    IF st.raised \/ "hire_date" \notin DOMAIN data THEN st
    ELSE IF data["hire_date"] = NonString THEN Raise(st)
    ELSE LET r == validate_hire_date(Strip(data["hire_date"]))
         IN  IF ~r.ok THEN FieldError(st, "hire_date", r.value)
             ELSE [st EXCEPT !.emp.hire_date = r.value]

ApplyStatus(st, data) ==
    IF st.raised \/ "status" \notin DOMAIN data THEN st
    ELSE IF data["status"] = NonString THEN Raise(st)
    ELSE LET r == validate_status(Strip(data["status"]))
         IN  IF ~r.ok THEN FieldError(st, "status", r.value)
             ELSE [st EXCEPT !.emp.status = r.value]

ApplyAddress(st, data) ==
    IF st.raised \/ "address" \notin DOMAIN data THEN st
    ELSE IF data["address"] = NonString THEN Raise(st)
    ELSE LET r == validate_address(Strip(data["address"]))
         IN  IF ~r.ok THEN FieldError(st, "address", r.value)
             ELSE [st EXCEPT !.emp.address = r.value]

\* lines 352-431: every field of the request, in the order of the code
ApplyFields(loaded, data, d, id) ==
    LET s0 == {[emp |-> loaded, errors |-> <<>>, raised |-> FALSE]}
        s1 == {ApplyName(st, data) : st \in s0}
        s2 == {ApplyEmail(st, data, d, id) : st \in s1}
        s3 == {ApplyPhone(st, data) : st \in s2}
        s4 == {ApplyDepartment(st, data) : st \in s3}
        s5 == {ApplyPosition(st, data) : st \in s4}
        s6 == {ApplySalary(st, data) : st \in s5}
        s7 == {ApplyHireDate(st, data) : st \in s6}
        s8 == {ApplyStatus(st, data) : st \in s7}
        s9 == {ApplyAddress(st, data) : st \in s8}
    IN  CHOOSE st \in s9 : TRUE

\* the columns whose in-session value differs from the value loaded: the
\* columns of the UPDATE statement
Changed(loaded, emp) == {c \in DOMAIN emp : emp[c] # loaded[c]}

\* flush and commit of a modified object: [ok, db]; not ok when the row is
\* gone (StaleDataError) or the email breaks the unique constraint, and the
\* table is then as it was (db.session.rollback())
FlushWithoutRollback(d, id, loaded, emp) ==
    IF id \notin DOMAIN d THEN [ok |-> FALSE, db |-> d]
    ELSE IF emp.email # d[id].email /\ ~EmailFree(d, emp.email, id)
    THEN [ok |-> FALSE, db |-> Put(d, id, emp)]
    ELSE [ok |-> TRUE, db |-> Put(d, id, emp)]

FlushUpdate(d, id, loaded, emp) ==
    LET ch == Changed(loaded, emp)
        row == [c \in DOMAIN emp |-> IF c \in ch THEN emp[c] ELSE d[id][c]]
    IN  IF ch = {} THEN [ok |-> TRUE, db |-> d]
        ELSE IF id \notin DOMAIN d THEN [ok |-> FALSE, db |-> d]
        ELSE IF "email" \in ch /\ ~EmailFree(d, row.email, id) THEN [ok |-> FALSE, db |-> d]
        ELSE [ok |-> TRUE, db |-> Put(d, id, row)]

\* the message each handler's except clause writes into its 500 answer
\* (lines 162, 222, 454, 520, 587, 713, 888)
GenericMessage(op) ==
    CASE op = "list" -> "An error occurred while fetching employees"
      [] op = "get" -> "An error occurred while fetching employee"
      [] op = "update" -> "An error occurred while updating employee"
      [] op = "delete" -> "An error occurred while deleting employee"
      [] op = "restore" -> "An error occurred while restoring employee"
      [] op = "upload" -> "An error occurred while uploading profile picture"
      [] op = "stats" -> "An error occurred while fetching statistics"
      [] OTHER -> "An error occurred"

\* lines 449-455 and the like: rollback, then the generic 500
InternalError(d, op, id, flag) ==
    Outcome(d, [Response(op, id, 500, "Internal Server Error", <<>>, flag, <<>>)
                   EXCEPT !.message = GenericMessage(op)])

\* str(e) of what create_employee can raise: the text of the exception,
\* which names the format, the statement or the constraint that failed
ExceptionText(cause) ==
    CASE cause = "hire_date" -> "time data does not match format '%Y-%m-%d'"
      [] cause = "salary" -> "(builtins.ValueError) could not convert string to float [SQL: INSERT INTO employees ...]"
      [] cause = "not_null" -> "(sqlite3.IntegrityError) NOT NULL constraint failed [SQL: INSERT INTO employees ...]"
      [] OTHER -> "(sqlite3.IntegrityError) UNIQUE constraint failed: employees.email [SQL: INSERT INTO employees ...]"

\* lines 270-277: rollback, then a 500 whose message is str(e)
CreateError(d, cause) ==
    Outcome(d, [Response("create", 0, 500, "Internal Server Error", <<>>, FALSE, <<>>)
                   EXCEPT !.message = ExceptionText(cause)])

NotFound(d, op, id, flag) ==
    Outcome(d, Response(op, id, 404, "Not Found", <<>>, flag, <<>>))

\* lines 433-438: the request is answered 400 and nothing is committed; the
\* session, with the assignments made so far, is discarded with the request
RejectUpdateKeepsValid(d, id, st) ==
    Outcome(Put(d, id, st.emp), Response("update", id, 400, "Validation Error", st.errors, FALSE, <<>>))

RejectUpdate(d, id, st) ==
    Outcome(d, Response("update", id, 400, "Validation Error", st.errors, FALSE, <<>>))

\* line 440-447: commit, then 200 with the employee; to_dict reads the row
\* again after the commit and raises when it is gone
CommitUpdate(d, id, loaded, emp) ==
    CHOOSE out \in
        {IF ~f.ok \/ id \notin DOMAIN f.db THEN InternalError(f.db, "update", id, FALSE)
         ELSE Outcome(f.db, Response("update", id, 200, "", <<>>, FALSE,
                                     <<to_dict(id, f.db[id], FALSE)>>)) :
            f \in {FlushUpdate(d, id, loaded, emp)}} : TRUE

\* update_employee, as one transaction
update_employee(d, id, data) ==
    IF id \notin get_active_query(d) THEN NotFound(d, "update", id, FALSE)
    ELSE IF DOMAIN data = {}
    THEN Outcome(d, Response("update", id, 400, "Bad Request", <<>>, FALSE, <<>>))
    ELSE CHOOSE out \in
            {IF st.raised THEN InternalError(d, "update", id, FALSE)
             ELSE IF st.errors # <<>> THEN RejectUpdate(d, id, st)
             ELSE CommitUpdate(d, id, d[id], st.emp) :
                st \in {ApplyFields(d[id], data, d, id)}} : TRUE


(***************************************************************************)
(* create_employee, delete_employee, restore_employee, get_employee        *)
(***************************************************************************)
\* the salary a request gives, as the Numeric column takes it: [ok, value];
\* a string goes through float(), which raises on what is no numeral
BindSalary(salary) ==
    IF salary.kind = "null" THEN [ok |-> TRUE, value |-> NoSalary]
    ELSE IF salary.kind = "num" THEN [ok |-> TRUE, value |-> salary.cents]
    ELSE LET dec == ParseDecimal(Strip(salary.text))
         IN  [ok |-> dec.ok, value |-> dec.cents]

\* line 250: strptime(hire_date_str, '%Y-%m-%d').date() if hire_date_str else None
CreateHireDate(hire_date_str) ==
    IF hire_date_str = None \/ hire_date_str = <<>> THEN [ok |-> TRUE, date |-> NoDate]
    ELSE IF hire_date_str = NonString THEN [ok |-> FALSE, date |-> NoDate]
    ELSE StrptimeYmd(hire_date_str)

\* create_employee, as one transaction: no field is validated
create_employee(d, data) ==
    IF DOMAIN data = {}
    THEN Outcome(d, Response("create", 0, 400, "Bad Request", <<>>, FALSE, <<>>))
    ELSE LET hire == CreateHireDate(Get(data, "hire_date", None))
             sal == BindSalary(Get(data, "salary", [kind |-> "null"]))
             row == NewEmployee(Get(data, "name", None), Get(data, "email", None),
                                Get(data, "department", None), Get(data, "position", None),
                                sal.value, hire.date)
             id == NextRowId(d)
         IN  IF ~hire.ok THEN CreateError(d, "hire_date")
             ELSE IF ~sal.ok THEN CreateError(d, "salary")
             ELSE IF ~NotNullOk(row) THEN CreateError(d, "not_null")
             ELSE IF ~EmailFree(d, row.email, id) THEN CreateError(d, "unique")
             ELSE Outcome(Put(d, id, row),
                          Response("create", id, 201, "", <<>>, FALSE, <<to_dict(id, row, FALSE)>>))

\* the query of delete_employee (line 490): the ids it may act on
DeleteQueryAll(d) == AllIds(d)

DeleteQuery(d) == get_active_query(d)

\* delete_employee, as one transaction
delete_employee(d, id, permanent, now) ==
    IF id \notin DeleteQuery(d) THEN NotFound(d, "delete", id, permanent)
    ELSE Outcome(IF permanent THEN Drop(d, id) ELSE Put(d, id, soft_delete(d[id], now)),
                 Response("delete", id, 200, "", <<>>, permanent, <<>>))

\* the query of restore_employee (line 551): the ids it may act on
RestoreQueryAll(d) == AllIds(d)

RestoreQuery(d) == get_deleted_query(d)

\* lines 559-564: another non-deleted employee holds the email
RestoreConflict(d, id) ==
    \E j \in AllIds(d) \ {id} : d[j].email = d[id].email /\ ~d[j].is_deleted

\* restore_employee, as one transaction
restore_employee(d, id) ==
    IF id \notin RestoreQuery(d) THEN NotFound(d, "restore", id, FALSE)
    ELSE IF RestoreConflict(d, id)
    THEN Outcome(d, Response("restore", id, 400, "Conflict", <<>>, FALSE, <<>>))
    ELSE LET row == restore(d[id])
         IN  Outcome(Put(d, id, row),
                     Response("restore", id, 200, "", <<>>, FALSE, <<to_dict(id, row, FALSE)>>))

\* the base query of get_employee and get_employees (lines 110-113, 203-206)
BaseQueryIgnoresFlag(d, include_deleted) == AllIds(d)

BaseQuery(d, include_deleted) ==
    IF include_deleted THEN AllIds(d) ELSE get_active_query(d)

\* get_employee
get_employee(d, id, include_deleted) ==
    IF id \notin BaseQuery(d, include_deleted) THEN NotFound(d, "get", id, include_deleted)
    ELSE Outcome(d, Response("get", id, 200, "", <<>>, include_deleted,
                             <<to_dict(id, d[id], include_deleted)>>))


(***************************************************************************)
(* get_employees: filter, order by name, paginate                          *)
(***************************************************************************)
\* the characters of the model in the order of their code points
AsciiOrder == <<" ", "$", "%", "&", "'", "(", ")", "+", ",", "-", ".", "/">> \o DigitSeq
              \o <<";", "<", ">">> \o <<"@">> \o UpperSeq \o <<"_">> \o LowerSeq

CharCode(c) == IndexOf(AsciiOrder, c)

\* a < b in the binary collation
RECURSIVE TextLess(_, _)
TextLess(a, b) ==
    IF b = <<>> THEN FALSE
    ELSE IF a = <<>> THEN TRUE
    ELSE IF Head(a) = Head(b) THEN TextLess(Tail(a), Tail(b))
    ELSE CharCode(Head(a)) < CharCode(Head(b))

\* column ILIKE '%needle%'
Contains(hay, needle) ==
    LET h == Lower(hay)
        n == Lower(needle)
    IN  \E i \in 1..(Len(h) - Len(n) + 1) : SubSeq(h, i, i + Len(n) - 1) = n

Ilike(column, needle) == column # None /\ Contains(column, needle)

\* lines 109-131: the ids the filters keep
FilterQuery(d, args) ==
    {i \in BaseQuery(d, args.include_deleted) :
        /\ args.search # <<>> =>
             \/ Ilike(d[i].name, args.search)
             \/ Ilike(d[i].email, args.search)
             \/ Ilike(d[i].department, args.search)
             \/ Ilike(d[i].position, args.search)
        /\ args.department # <<>> => Ilike(d[i].department, args.department)
        /\ args.status # <<>> => d[i].status = args.status}

\* ORDER BY name; rows of equal name are taken in the order of their ids
Before(d, i, j) ==
    \/ TextLess(d[i].name, d[j].name)
    \/ d[i].name = d[j].name /\ i < j

RECURSIVE OrderByName(_, _)
OrderByName(d, ids) ==
    IF ids = {} THEN <<>>
    ELSE LET first == CHOOSE i \in ids : \A j \in ids \ {i} : Before(d, i, j)
         IN  <<first>> \o OrderByName(d, ids \ {first})

PerPageCap == 100
PerPageFallback == 20

\* line 103
EffectivePerPage(per_page) == IF per_page < PerPageCap THEN per_page ELSE PerPageCap

PageDefault == 1
PerPageDefault == 10

PaginateFloorPages(rows, page, per_page) ==
    LET pg == IF page < 1 THEN 1 ELSE page
        pp == IF per_page < 1 THEN PerPageFallback ELSE per_page
        total == Len(rows)
        pages == total \div pp
        from == (pg - 1) * pp + 1
        to == IF pg * pp < total THEN pg * pp ELSE total
    IN  [items |-> SubSeq(rows, from, to),
         meta |-> [page |-> pg, per_page |-> pp, total |-> total, pages |-> pages,
                   has_prev |-> pg > 1, has_next |-> pg < pages]]

PaginateLastPage(rows, page, per_page) ==
    LET pp == IF per_page < 1 THEN PerPageFallback ELSE per_page
        total == Len(rows)
        pages == (total + pp - 1) \div pp
        pg == IF page < 1 THEN 1 ELSE IF page > pages /\ pages > 0 THEN pages ELSE page
        from == (pg - 1) * pp + 1
        to == IF pg * pp < total THEN pg * pp ELSE total
    IN  [items |-> SubSeq(rows, from, to),
         meta |-> [page |-> page, per_page |-> pp, total |-> total, pages |-> pages,
                   has_prev |-> page > 1, has_next |-> page < pages]]

\* query.paginate(page, per_page, error_out=False)
Paginate(rows, page, per_page) ==
    LET pg == IF page < 1 THEN 1 ELSE page
        pp == IF per_page < 1 THEN PerPageFallback ELSE per_page
        total == Len(rows)
        pages == (total + pp - 1) \div pp
        from == (pg - 1) * pp + 1
        to == IF pg * pp < total THEN pg * pp ELSE total
    IN  [items |-> SubSeq(rows, from, to),
         meta |-> [page |-> pg, per_page |-> pp, total |-> total, pages |-> pages,
                   has_prev |-> pg > 1, has_next |-> pg < pages]]

\* get_employees
get_employees(d, args) ==
    LET ordered == OrderByName(d, FilterQuery(d, args))
        p == Paginate(ordered, args.page, EffectivePerPage(args.per_page))
        r == Response("list", 0, 200, "", <<>>, args.include_deleted,
                      [k \in DOMAIN p.items |->
                          to_dict(p.items[k], d[p.items[k]], args.include_deleted)])
    IN  Outcome(d, [r EXCEPT !.pagination = p.meta,
                             !.query = [page |-> IntArg(args.page),
                                        per_page |-> IntArg(args.per_page)]])


\* the row of one department in the "departments" list
DepartmentCount(d, ids, dept) == Cardinality({i \in ids : d[i].department = dept})

StatsCountAllDepartments(d) ==
    [total_employees |-> Cardinality(DOMAIN d),
     active_employees |-> Cardinality({i \in DOMAIN d : d[i].status = Active /\ ~d[i].is_deleted}),
     inactive_employees |-> Cardinality({i \in DOMAIN d : d[i].status = Inactive /\ ~d[i].is_deleted}),
     deleted_employees |-> Cardinality({i \in DOMAIN d : d[i].is_deleted}),
     departments |-> [dept \in {d[i].department : i \in DOMAIN d} |->
                         DepartmentCount(d, DOMAIN d, dept)]]

\* lines 860-873: the four counts and the GROUP BY department
Stats(d) ==
    [total_employees |-> Cardinality(DOMAIN d),
     active_employees |-> Cardinality({i \in DOMAIN d : d[i].status = Active /\ ~d[i].is_deleted}),
     inactive_employees |-> Cardinality({i \in DOMAIN d : d[i].status = Inactive /\ ~d[i].is_deleted}),
     deleted_employees |-> Cardinality({i \in DOMAIN d : d[i].is_deleted}),
     departments |-> [dept \in {d[i].department : i \in get_active_query(d)} |->
                         DepartmentCount(d, get_active_query(d), dept)]]

\* get_employee_stats
get_employee_stats(d) ==
    Outcome(d, Response("stats", 0, 200, "", <<>>, FALSE, <<Stats(d)>>))

(***************************************************************************)
(* routes/auth.py                                                          *)
(***************************************************************************)
\* Admin.password (setter) and Admin.check_password: the stored hash is a
\* function of the password and of nothing else that the model tells apart
HashPassword(password) == <<"$">> \o password

CheckPasswordAny(row, password) == password # <<>>

check_password(row, password) ==
    /\ password # <<>>
    /\ row.password_hash # <<>>
    /\ HashPassword(password) = row.password_hash

\* validate_admin_credentials: the admin found and accepted, as a set of at
\* most one id; .first() takes the row of least id among the active admins
\* that the identifier names
validate_admin_credentials(adm, username_or_email, password) ==
    LET named == {a \in DOMAIN adm :
                    /\ adm[a].username = username_or_email \/ adm[a].email = username_or_email
                    /\ adm[a].is_active}
    IN  IF username_or_email = <<>> \/ password = <<>> THEN {}
        ELSE {a \in named : /\ \A b \in named : a <= b
                            /\ check_password(adm[a], password)}

\* login, up to the creation of the credentials: [code, admin]
login(adm, data) ==
    IF DOMAIN data = {} THEN [code |-> 400, admin |-> 0]
    ELSE LET username_or_email == Strip(Get(data, "username_or_email", <<>>))
             password == Get(data, "password", <<>>)
             found == validate_admin_credentials(adm, username_or_email, password)
         IN  IF username_or_email = <<>> \/ password = <<>> THEN [code |-> 400, admin |-> 0]
             ELSE IF found = {} THEN [code |-> 401, admin |-> 0]
             ELSE [code |-> 200, admin |-> CHOOSE a \in found : TRUE]

\* create_access_token / create_refresh_token
Token(jti, type, sub) == [jti |-> jti, type |-> type, sub |-> sub]

(***************************************************************************)
(* The requests of the model                                               *)
(***************************************************************************)
AdminName == <<"a","d","m","i","n">>
AdminEmail == <<"a","d","m","i","n","@","x",".","i","o">>
AdminPassword == <<"p","w","1">>

LoginBodies ==
    << [username_or_email |-> AdminName, password |-> AdminPassword],
       [username_or_email |-> AdminEmail, password |-> AdminPassword],
       [username_or_email |-> AdminName, password |-> <<"w","r","o","n","g">>],
       [username_or_email |-> <<"n","o","b","o","d","y">>, password |-> AdminPassword],
       [username_or_email |-> AdminName],
       <<>>,
       [username_or_email |-> <<" ","a","d","m","i","n"," ">>, password |-> AdminPassword],
       [username_or_email |-> <<" "," ">>, password |-> AdminPassword],
       [username_or_email |-> AdminName, password |-> <<>>] >>

Num(cents) == [kind |-> "num", cents |-> cents]
Str(text) == [kind |-> "str", text |-> text]

CreateBodies ==
    << [name |-> <<"A","n","n">>, email |-> <<"a","n","n","@","x",".","i","o">>, department |-> <<"E","n","g">>,
        position |-> <<"D","e","v">>, salary |-> Num(5000000), hire_date |-> <<"2","0","2","0","-","0","1","-","1","5">>],
       [name |-> <<"B","o","b">>, email |-> <<"b","o","b","@","x",".","i","o">>, department |-> <<"O","p","s">>,
        position |-> <<"L","e","a","d">>, salary |-> Str(<<"6","0","0","0","0">>), hire_date |-> <<"2","0","2","1","-","0","3","-","0","1">>],
       [name |-> <<"C","y">>, email |-> <<"c","y","@","x",".","i","o">>],
       <<>>,
       [name |-> <<"A","n","n">>, email |-> <<"a","n","n","@","x",".","i","o">>, department |-> <<"E","n","g">>,
        position |-> <<"D","e","v">>, salary |-> Num(5000000), hire_date |-> <<"0","1","/","1","5","/","2","0","2","0">>],
       [name |-> <<"A","n","n">>, email |-> <<"a","n","n","@","x",".","i","o">>, department |-> <<"E","n","g">>,
        position |-> <<"D","e","v">>, salary |-> Num(0 - 500), hire_date |-> <<"2","0","2","0","-","0","1","-","1","5">>] >>

UpdateBodies ==
    << [name |-> <<" ","A","l"," ">>, salary |-> Str(<<"-","5">>)],
       [name |-> <<"<","b",">","A","l","<","/","b",">">>, phone |-> <<"+","1"," ","5","5","5","-","0","1","0","1">>, department |-> <<"R","&","D">>,
        position |-> <<"Q","A">>, salary |-> Str(<<"$","1",",","0","0","0",".","5","0">>), hire_date |-> <<"0","1","/","1","5","/","2","0","2","0">>,
        address |-> <<"1"," ","M","a","i","n"," ","S","t">>],
       [email |-> <<" ","B","O","B","@","X",".","I","O">>],
       [status |-> Inactive],
       [status |-> Active],
       [name |-> <<"A">>, email |-> <<"b","a","d">>, phone |-> <<"1","2">>, salary |-> Num(7000000)],
       [name |-> NonString],
       <<>> >>

ListArgs(page, per_page, include_deleted) ==
    [page |-> page, per_page |-> per_page, search |-> <<>>, department |-> <<>>,
     status |-> <<>>, include_deleted |-> include_deleted]

ListRequests ==
    << ListArgs(1, 10, FALSE), ListArgs(1, 10, TRUE), ListArgs(2, 1, TRUE) >>

Ids == 1..MaxId

\* the threads of the server that handle requests at the same time
Workers == 1..NumWorkers

\* a worker between two requests
Idle == [pc |-> "idle", op |-> "none", id |-> 0, tok |-> NoToken,
         loaded |-> <<>>, emp |-> <<>>]
Credentials == issued \cup {NoToken}

\* the endpoints behind admin_required
ProtectedOps == {"create", "update", "delete", "restore", "get", "list", "upload", "stats"}

(***************************************************************************)
(* Init: the tables as the init_database fixture of tests/test_auth.py     *)
(* leaves them (one active admin, no employee), no credential issued and   *)
(* nothing revoked                                                         *)
(***************************************************************************)
NoResponse == Response("none", 0, 0, "", <<>>, FALSE, <<>>)

Init ==
    /\ db = <<>>
    /\ files = {}
    /\ clock = 1
    /\ admins = [a \in {1} |-> [username |-> AdminName, email |-> AdminEmail,
                                password_hash |-> HashPassword(AdminPassword),
                                is_active |-> TRUE]]
    /\ issued = {}
    /\ nextJti = 1
    /\ revoked = {}
    /\ resp = NoResponse
    /\ sess = [w \in Workers |-> Idle]
    /\ saved = <<>>
    /\ loggedOut = {}
    /\ hits = [endpoint \in LimitedEndpoints |-> 0]

\* the gate of the request opens: the handler body runs
Admitted(tok) == admin_required(tok, admins, issued, revoked) = 200

\* admin_required answers for the handler: 401 (422 for a credential of the
\* wrong type), whatever the arguments of the request
GateRejects(tok, op) ==
    /\ ~Admitted(tok)
    /\ resp' = Response(op, tok.jti, admin_required(tok, admins, issued, revoked),
                        "Unauthorized", <<>>, FALSE, <<>>)
    /\ UNCHANGED <<db, clock, authVars, sess, saved, files>>

\* login, lines 81-133
LoginHandler(data) ==
    LET r == login(admins, data)
        access == Token(nextJti, "access", r.admin)
        refresh == Token(nextJti + 1, "refresh", r.admin)
    IN  /\ nextJti + 1 <= MaxJti
        /\ IF r.code = 200
           THEN /\ issued' = issued \cup {access, refresh}
                /\ nextJti' = nextJti + 2
                /\ resp' = Response("login", r.admin, 200, "", <<>>, FALSE, <<access, refresh>>)
           ELSE /\ UNCHANGED <<issued, nextJti>>
                /\ resp' = Response("login", 0, r.code,
                                    IF r.code = 400 THEN "Bad Request" ELSE "Unauthorized",
                                    <<>>, FALSE, <<>>)
        /\ UNCHANGED <<db, clock, admins, revoked, loggedOut, sess, saved, files>>

\* POST /api/auth/login of a client within the limit of the endpoint
Login(data) == LoginHandler(data) /\ UNCHANGED hits

\* POST /api/employees
CreateEmployee(tok, data) ==
    /\ Admitted(tok)
    /\ NextRowId(db) <= MaxId
    /\ \E out \in {create_employee(db, data)} :
          /\ db' = out.db
          /\ resp' = out.resp
    /\ UNCHANGED <<clock, authVars, sess, saved, files>>

\* PUT /api/employees/<id>
UpdateEmployee(tok, id, data) ==
    /\ Admitted(tok)
    /\ \E out \in {update_employee(db, id, data)} :
          /\ db' = out.db
          /\ resp' = out.resp
    /\ UNCHANGED <<clock, authVars, sess, saved, files>>

\* DELETE /api/employees/<id>?permanent=...
DeleteEmployee(tok, id, permanent) ==
    /\ Admitted(tok)
    /\ clock <= MaxClock
    /\ \E out \in {delete_employee(db, id, permanent, clock)} :
          /\ db' = out.db
          /\ resp' = out.resp
          /\ clock' = IF out.resp.code = 200 /\ ~permanent THEN clock + 1 ELSE clock
          /\ saved' = IF out.resp.code # 200 THEN saved
                      ELSE IF permanent THEN Drop(saved, id)
                      ELSE Put(saved, id, db[id])
    /\ UNCHANGED <<authVars, sess, files>>

\* POST /api/employees/<id>/restore
RestoreEmployee(tok, id) ==
    /\ Admitted(tok)
    /\ \E out \in {restore_employee(db, id)} :
          /\ db' = out.db
          /\ resp' = out.resp
          /\ saved' = IF out.resp.code = 200 THEN Drop(saved, id) ELSE saved
    /\ UNCHANGED <<clock, authVars, sess, files>>

\* GET /api/employees/<id>?include_deleted=...
GetEmployee(tok, id, include_deleted) ==
    /\ Admitted(tok)
    /\ resp' = get_employee(db, id, include_deleted).resp
    /\ UNCHANGED <<db, clock, authVars, sess, saved, files>>

\* GET /api/employees?page=...&per_page=...&include_deleted=...
GetEmployees(tok, args) ==
    /\ Admitted(tok)
    /\ resp' = get_employees(db, args).resp
    /\ UNCHANGED <<db, clock, authVars, sess, saved, files>>

GetEmployeeStats(tok) ==
    /\ Admitted(tok)
    /\ resp' = get_employee_stats(db).resp
    /\ UNCHANGED <<db, clock, authVars, sess, saved, files>>

\* the requests of one client, handled one after the other
Next ==
    \/ \E tok \in issued : GetEmployeeStats(tok)
    \/ \E i \in DOMAIN LoginBodies : Login(LoginBodies[i])
    \/ \E op \in ProtectedOps : GateRejects(NoToken, op)
    \/ \E tok \in issued, i \in DOMAIN CreateBodies : CreateEmployee(tok, CreateBodies[i])
    \/ \E tok \in issued, id \in Ids, i \in DOMAIN UpdateBodies :
          UpdateEmployee(tok, id, UpdateBodies[i])
    \/ \E tok \in issued, id \in Ids, permanent \in BOOLEAN : DeleteEmployee(tok, id, permanent)
    \/ \E tok \in issued, id \in Ids : RestoreEmployee(tok, id)
    \/ \E tok \in issued, id \in Ids, include_deleted \in BOOLEAN :
          GetEmployee(tok, id, include_deleted)
    \/ \E tok \in issued, i \in DOMAIN ListRequests : GetEmployees(tok, ListRequests[i])

Spec == Init /\ [][Next]_vars


(***************************************************************************)
(* Properties of the employee lifecycle, checked under Spec                *)
(***************************************************************************)

\* C1: in every reachable state, every employee row with is_deleted = true
\* has status "Inactive".
C1_DeletedImpliesInactive ==
    \A i \in DOMAIN db : db[i].is_deleted => db[i].status = Inactive

\* C1 witness: a soft delete has just succeeded on an employee that was Active.
C1_Witness ==
    /\ resp.op = "delete" /\ resp.code = 200 /\ ~resp.flag
    /\ resp.id \in DOMAIN saved /\ saved[resp.id].status = Active
    /\ db[resp.id].is_deleted

\* C3: a restore that succeeds leaves the employee not deleted, with
\* deleted_at null and status "Active", and with every other column as it was
\* before the soft delete.
C3_SoftDeleteRestoreRoundTrip ==
    [][(resp'.op = "restore" /\ resp'.code = 200) =>
          /\ resp'.id \in DOMAIN saved
          /\ db'[resp'.id] = [saved[resp'.id] EXCEPT !.is_deleted = FALSE,
                                                     !.deleted_at = NoTime,
                                                     !.status = Active]]_vars

\* C3 witness: a restore has just succeeded and the employee is Active again.
C3_Witness ==
    /\ resp.op = "restore" /\ resp.code = 200
    /\ ~db[resp.id].is_deleted /\ db[resp.id].status = Active

\* C4: an update answered 400 changes no row of the table, and a get of the
\* employee after it returns what a get before it returned.
C4_RejectedUpdateChangesNothing ==
    [][(resp'.op = "update" /\ resp'.code = 400) =>
          /\ db' = db
          /\ get_employee(db', resp'.id, TRUE).resp = get_employee(db, resp'.id, TRUE).resp]_vars

\* C4 witness: an update with a valid name and an invalid salary has just been
\* rejected with the salary error alone.
C4_Witness ==
    /\ resp.op = "update" /\ resp.code = 400
    /\ Len(resp.errors) = 1 /\ resp.errors[1][1] = "salary"

\* whether the value a request gives for a field fails the validation of
\* that field (for the email: its format or its uniqueness)
FieldFails(key, data, d, id) ==
    LET v == Strip(data[key])
    IN  CASE key = "name" -> ~validate_name(v).ok
          [] key = "email" -> \/ ~validate_email(Lower(v))
                              \/ \E j \in DOMAIN d \ {id} : d[j].email = Lower(v)
          [] key = "phone" -> v # <<>> /\ ~validate_phone(v)
          [] key = "department" -> ~validate_department(v).ok
          [] key = "position" -> ~validate_position(v).ok
          [] key = "hire_date" -> ~validate_hire_date(v).ok
          [] key = "status" -> ~validate_status(v).ok
          [] key = "address" -> ~validate_address(v).ok
          [] OTHER -> FALSE

SalaryFails(data) == "salary" \in DOMAIN data /\ ~validate_salary(data["salary"]).ok

\* C5: an update rejected for validation returns exactly one error entry for
\* each field of the request that fails validation, and none for the others.
C5_OneErrorPerFailingField ==
    \A id \in get_active_query(db), i \in DOMAIN UpdateBodies :
        LET data == UpdateBodies[i]
            r == update_employee(db, id, data).resp
            failing == {k \in DOMAIN data \ {"salary"} : FieldFails(k, data, db, id)}
                       \cup (IF SalaryFails(data) THEN {"salary"} ELSE {})
            reported == {r.errors[n][1] : n \in DOMAIN r.errors}
        IN  (r.code = 400 /\ r.error = "Validation Error") =>
               /\ reported = failing
               /\ Len(r.errors) = Cardinality(failing)

\* C5 witness: an update has just been rejected with three errors at once.
C5_Witness ==
    /\ resp.op = "update" /\ resp.code = 400 /\ Len(resp.errors) = 3

ListedIds(d, include_deleted) ==
    {i \in Ids : \E page \in 1..(MaxId + 1), per_page \in {1, 10} :
        LET r == get_employees(d, ListArgs(page, per_page, include_deleted)).resp
        IN  \E k \in DOMAIN r.body : r.body[k].id = i}

\* C8: from a soft delete to the restore, the employee is on no page of the
\* default listing and get without include_deleted answers 404, while the
\* listing and get with include_deleted = true return it.
C8_SoftDeletedVisibility ==
    /\ \A id \in DOMAIN saved :
          /\ get_employee(db, id, FALSE).resp.code = 404
          /\ get_employee(db, id, TRUE).resp.code = 200
          /\ get_employee(db, id, TRUE).resp.body = <<to_dict(id, db[id], TRUE)>>
          /\ id \notin ListedIds(db, FALSE)
          /\ id \in ListedIds(db, TRUE)
    /\ (resp.op = "get" /\ resp.id \in DOMAIN saved) =>
          resp.code = (IF resp.flag THEN 200 ELSE 404)
    /\ (resp.op = "list" /\ resp.code = 200 /\ ~resp.flag) =>
          \A k \in DOMAIN resp.body : resp.body[k].id \notin DOMAIN saved

\* C8 witness: a get with include_deleted = true has just returned an
\* employee that is soft-deleted.
C8_Witness ==
    /\ resp.op = "get" /\ resp.flag /\ resp.code = 200
    /\ resp.id \in DOMAIN saved /\ db[resp.id].is_deleted

\* C9 as stated: a delete with permanent = true is answered 404 only when no
\* row has the id, and after it succeeds the row is gone for get and restore.
C9_PermanentDeleteAnyRow ==
    /\ (resp.op = "delete" /\ resp.flag /\ resp.code = 404) => resp.id \notin DOMAIN db
    /\ (resp.op = "delete" /\ resp.flag /\ resp.code = 200) =>
          /\ get_employee(db, resp.id, TRUE).resp.code = 404
          /\ restore_employee(db, resp.id).resp.code = 404


(***************************************************************************)
(* Requests handled at the same time.  A handler that reads before it      *)
(* writes takes two steps: it loads the row and validates against the      *)
(* table as it is then, and it commits later, against the table as it is   *)
(* by then; the requests of other workers come in between.                 *)
(***************************************************************************)
ConcUpdateBodies ==
    << [email |-> <<" ","B","O","B","@","X",".","I","O">>],
       [email |-> <<"a","n","n","@","x",".","i","o">>],
       [name |-> <<" ","A","l"," ">>, salary |-> Str(<<"-","5">>)] >>

Busy(op, id, tok, loaded, emp) ==
    [pc |-> "commit", op |-> op, id |-> id, tok |-> tok, loaded |-> loaded, emp |-> emp]

\* update_employee, lines 336-438: load, validate, assign
BeginUpdate(w, tok, id, data) ==
    /\ sess[w].pc = "idle"
    /\ Admitted(tok)
    /\ IF id \in get_active_query(db) /\ DOMAIN data # {}
       THEN \E st \in {ApplyFields(db[id], data, db, id)} :
               IF ~st.raised /\ st.errors = <<>>
               THEN /\ sess' = [sess EXCEPT ![w] = Busy("update", id, tok, db[id], st.emp)]
                    /\ UNCHANGED resp
               ELSE /\ resp' = IF st.raised THEN InternalError(db, "update", id, FALSE).resp
                                             ELSE RejectUpdate(db, id, st).resp
                    /\ UNCHANGED sess
       ELSE /\ resp' = update_employee(db, id, data).resp
            /\ UNCHANGED sess
    /\ UNCHANGED <<db, clock, authVars, saved, files>>

\* update_employee, lines 440-455: commit, or rollback and 500
CommitUpdateStep(w) ==
    /\ sess[w].pc = "commit" /\ sess[w].op = "update"
    /\ \E out \in {CommitUpdate(db, sess[w].id, sess[w].loaded, sess[w].emp)} :
          /\ db' = out.db
          /\ resp' = out.resp
    /\ sess' = [sess EXCEPT ![w] = Idle]
    /\ UNCHANGED <<clock, authVars, saved, files>>

\* restore_employee, lines 551-572: load, check the conflict, restore()
BeginRestore(w, tok, id) ==
    /\ sess[w].pc = "idle"
    /\ Admitted(tok)
    /\ IF id \in RestoreQuery(db) /\ ~RestoreConflict(db, id)
       THEN /\ sess' = [sess EXCEPT ![w] = Busy("restore", id, tok, db[id], restore(db[id]))]
            /\ UNCHANGED resp
       ELSE /\ resp' = restore_employee(db, id).resp
            /\ UNCHANGED sess
    /\ UNCHANGED <<db, clock, authVars, saved, files>>

\* restore_employee, lines 573-588: commit, or rollback and 500
CommitRestoreStep(w) ==
    /\ sess[w].pc = "commit" /\ sess[w].op = "restore"
    /\ \E f \in {FlushUpdate(db, sess[w].id, sess[w].loaded, sess[w].emp)} :
          /\ db' = f.db
          /\ resp' = IF f.ok
                     THEN Response("restore", sess[w].id, 200, "", <<>>, FALSE,
                                   <<to_dict(sess[w].id, f.db[sess[w].id], FALSE)>>)
                     ELSE InternalError(db, "restore", sess[w].id, FALSE).resp
    /\ sess' = [sess EXCEPT ![w] = Idle]
    /\ UNCHANGED <<clock, authVars, saved, files>>

\* the requests of several clients, interleaved
NextConc ==
    \/ Login(LoginBodies[1])
    \/ \E tok \in issued, i \in 1..2 : CreateEmployee(tok, CreateBodies[i])
    \/ \E tok \in issued, id \in Ids, permanent \in BOOLEAN : DeleteEmployee(tok, id, permanent)
    \/ \E w \in Workers, tok \in issued, id \in Ids, i \in DOMAIN ConcUpdateBodies :
          BeginUpdate(w, tok, id, ConcUpdateBodies[i])
    \/ \E w \in Workers : CommitUpdateStep(w)
    \/ \E w \in Workers, tok \in issued, id \in Ids : BeginRestore(w, tok, id)
    \/ \E w \in Workers : CommitRestoreStep(w)

SpecConc == Init /\ [][NextConc]_vars

\* C2: in every state reached by interleaved create, update, delete and
\* restore requests, no two employees with is_deleted = false have the same
\* email.
C2_ActiveEmailsUnique ==
    \A i, j \in get_active_query(db) : i # j => db[i].email # db[j].email

\* C2 witness: two employees are not deleted, and the commit of an update
\* that passed its own check of the email while another request was under
\* way has just been refused.
C2_Witness ==
    /\ resp.op = "update" /\ resp.code = 500
    /\ Cardinality(get_active_query(db)) = 2

\* no soft-deleted employee has the email of an employee that is not deleted:
\* the Conflict branch of restore_employee is never taken
RestoreNeverConflicts ==
    \A id \in get_deleted_query(db) : ~RestoreConflict(db, id)


(***************************************************************************)
(* upload_profile_picture                                                  *)
(***************************************************************************)
ALLOWED_EXTENSIONS == {<<"p","n","g">>, <<"j","p","g">>, <<"j","p","e","g">>, <<"g","i","f">>, <<"w","e","b","p">>}

\* position of the last c in s, 0 when there is none
RECURSIVE RFind(_, _, _)
RFind(s, c, i) == IF i = 0 THEN 0 ELSE IF s[i] = c THEN i ELSE RFind(s, c, i - 1)

\* allowed_file
allowed_file(filename) ==
    /\ RFind(filename, ".", Len(filename)) # 0
    /\ Lower(SubSeq(filename, RFind(filename, ".", Len(filename)) + 1, Len(filename)))
          \in ALLOWED_EXTENSIONS

\* "_".join(filename.split()): runs of white space become one underscore
RECURSIVE JoinWords(_)
JoinWords(s) ==
    IF s = <<>> THEN <<>>
    ELSE IF Head(s) \in WhiteChars
         THEN (IF LStrip(s) = <<>> THEN <<>> ELSE <<"_">> \o JoinWords(LStrip(s)))
    ELSE <<Head(s)>> \o JoinWords(Tail(s))

FilenameChars == AlnumChars \cup {"_", ".", "-"}

RECURSIVE KeepFilenameChars(_)
KeepFilenameChars(s) ==
    IF s = <<>> THEN <<>>
    ELSE IF Head(s) \in FilenameChars THEN <<Head(s)>> \o KeepFilenameChars(Tail(s))
    ELSE KeepFilenameChars(Tail(s))

\* str.strip("._")
RECURSIVE StripDots(_)
StripDots(s) ==
    IF s # <<>> /\ Head(s) \in {".", "_"} THEN StripDots(Tail(s))
    ELSE IF s # <<>> /\ s[Len(s)] \in {".", "_"} THEN StripDots(SubSeq(s, 1, Len(s) - 1))
    ELSE s

\* werkzeug secure_filename: path separators to spaces, words joined by
\* underscores, other characters dropped, dots and underscores stripped
secure_filename(filename) ==
    StripDots(KeepFilenameChars(JoinWords(Strip(
        [i \in DOMAIN filename |-> IF filename[i] = "/" THEN " " ELSE filename[i]]))))

\* os.path.splitext(filename)[1]
SplitExt(filename) ==
    IF RFind(filename, ".", Len(filename)) <= 1 THEN <<>>
    ELSE SubSeq(filename, RFind(filename, ".", Len(filename)), Len(filename))

\* lines 671-675: profiles/employee_<id>_<timestamp><ext>
PicturePath(id, now, filename) ==
    <<"p","r","o","f","i","l","e","s","/","e","m","p","l","o","y","e","e","_">> \o <<DigitSeq[id + 1]>> \o <<"_">> \o <<DigitSeq[now + 1]>>
        \o SplitExt(secure_filename(filename))

\* a request without a file part; "image" tells whether the bytes of the
\* part decode as an image, which the handler never looks at
NoFile == [present |-> FALSE, filename |-> <<>>, image |-> FALSE]

\* lines 658-659: the directory that os.makedirs creates under UPLOAD_FOLDER
UploadDir == <<"p","r","o","f","i","l","e","s">>

UploadRefusalAnyType(d, id, file) ==
    IF id \notin get_active_query(d) THEN 404
    ELSE IF ~file.present \/ file.filename = <<>> THEN 400
    ELSE 0

\* lines 628-657: the answer before storage is touched, 0 when there is none
UploadRefusal(d, id, file) ==
    IF id \notin get_active_query(d) THEN 404
    ELSE IF ~file.present \/ file.filename = <<>> \/ ~allowed_file(file.filename) THEN 400
    ELSE 0

\* the message of that answer (lines 633, 640, 648, 654)
UploadRefusalMessage(d, id, file) ==
    IF id \notin get_active_query(d) THEN "Employee not found"
    ELSE IF ~file.present THEN "No file provided"
    ELSE IF file.filename = <<>> THEN "No file selected"
    ELSE "Invalid file type. Allowed types: png, jpg, jpeg, gif, webp"

\* lines 668-676: os.remove of the previous picture, when the row names one
RemoveOldPicture(fs, row) ==
    IF row.profile_picture_path # None THEN fs \ {row.profile_picture_path} ELSE fs

UploadFiles == << [present |-> TRUE, filename |-> <<"m","y"," ","p","i","c",".","P","N","G">>, image |-> TRUE],
                 [present |-> TRUE, filename |-> <<"r","u","n",".","e","x","e">>, image |-> FALSE],
                 NoFile,
                 [present |-> TRUE, filename |-> <<"b","a","d",".","p","n","g">>, image |-> FALSE],
                 [present |-> TRUE, filename |-> <<"n","o","t","e","s",".","t","x","t">>, image |-> FALSE] >>

\* upload_profile_picture, lines 628-689: the checks, the removal of the
\* previous picture, file.save (which may raise) and the assignment
UploadHandler(w, tok, id, file, saveOk) ==
    /\ sess[w].pc = "idle"
    /\ Admitted(tok)
    /\ \E refusal \in {UploadRefusal(db, id, file)} :
          IF refusal # 0
          THEN /\ resp' = [Response("upload", id, refusal,
                                    IF refusal = 404 THEN "Not Found" ELSE "Bad Request",
                                    <<>>, FALSE, <<>>)
                               EXCEPT !.message = UploadRefusalMessage(db, id, file)]
               /\ UNCHANGED <<sess, files>>
          ELSE \E path \in {PicturePath(id, clock, file.filename)} :
                 IF saveOk
                 THEN /\ files' = RemoveOldPicture(files, db[id]) \cup {UploadDir, path}
                      /\ sess' = [sess EXCEPT ![w] =
                                     Busy("upload", id, tok, db[id],
                                          [db[id] EXCEPT !.profile_picture_path = path])]
                      /\ UNCHANGED resp
                 ELSE /\ files' = RemoveOldPicture(files, db[id]) \cup {UploadDir}
                      /\ resp' = InternalError(db, "upload", id, FALSE).resp
                      /\ UNCHANGED sess
    /\ UNCHANGED <<db, clock, admins, issued, nextJti, revoked, loggedOut, saved>>

\* POST /api/employees/<id>/upload-profile of a client within the limit
BeginUpload(w, tok, id, file, saveOk) ==
    UploadHandler(w, tok, id, file, saveOk) /\ UNCHANGED hits

\* upload_profile_picture, lines 690-714: commit, or rollback and 500
CommitUploadStep(w) ==
    /\ sess[w].pc = "commit" /\ sess[w].op = "upload"
    /\ \E f \in {FlushUpdate(db, sess[w].id, sess[w].loaded, sess[w].emp)} :
          /\ db' = f.db
          /\ resp' = IF f.ok
                     THEN Response("upload", sess[w].id, 200, "", <<>>, FALSE,
                                   <<sess[w].emp.profile_picture_path>>)
                     ELSE InternalError(db, "upload", sess[w].id, FALSE).resp
    /\ sess' = [sess EXCEPT ![w] = Idle]
    /\ UNCHANGED <<files, clock, authVars, saved>>

\* the requests that write the store: one request that reads before it
\* writes is under way at a time, and the requests that take a single step
\* (create, delete) come in between its two steps
StoreWorkers == {1}

NextStore ==
    \/ Login(LoginBodies[1])
    \/ \E tok \in issued, i \in 1..2 : CreateEmployee(tok, CreateBodies[i])
    \/ \E tok \in issued, id \in Ids, permanent \in BOOLEAN : DeleteEmployee(tok, id, permanent)
    \/ \E w \in StoreWorkers, tok \in issued, id \in Ids :
          BeginUpdate(w, tok, id, ConcUpdateBodies[1])
    \/ \E w \in StoreWorkers : CommitUpdateStep(w)
    \/ \E w \in StoreWorkers, tok \in issued, id \in Ids : BeginRestore(w, tok, id)
    \/ \E w \in StoreWorkers : CommitRestoreStep(w)
    \/ \E w \in StoreWorkers, tok \in issued, id \in Ids :
          BeginUpload(w, tok, id, UploadFiles[1], TRUE)
    \/ \E w \in StoreWorkers : CommitUploadStep(w)

SpecStore == Init /\ [][NextStore]_vars

\* datetime.now() (line 663) moves on by a second
Tick ==
    /\ clock < MaxClock
    /\ clock' = clock + 1
    /\ UNCHANGED <<db, files, authVars, resp, sess, saved>>

\* the uploads of two clients at the same time, with every kind of file and
\* a file.save that may fail; rows come and go in between
NextUpload ==
    \/ Tick
    \/ Login(LoginBodies[1])
    \/ \E tok \in issued : CreateEmployee(tok, CreateBodies[1])
    \/ \E tok \in issued, id \in Ids, permanent \in BOOLEAN : DeleteEmployee(tok, id, permanent)
    \/ \E w \in Workers, tok \in issued, id \in Ids, i \in DOMAIN UploadFiles,
          saveOk \in BOOLEAN : BeginUpload(w, tok, id, UploadFiles[i], saveOk)
    \/ \E w \in Workers : CommitUploadStep(w)

SpecUpload == Init /\ [][NextUpload]_vars

(***************************************************************************)
(* The rate limiter of login and upload: "5 per minute", a fixed window    *)
(* per endpoint and client, kept in memory.                                *)
(***************************************************************************)
\* ratelimit_handler: the answer to a request over the limit
TooManyRequests(op) ==
    [Response(op, 0, 429, "Too Many Requests", <<>>, FALSE, <<>>)
        EXCEPT !.message = "Rate limit exceeded. Please try again later."]

OverLimitAfterSix(endpoint) == hits[endpoint] > RateLimit

\* the request is over the limit of its endpoint
OverLimit(endpoint) == hits[endpoint] >= RateLimit

\* the limiter turns the request away: the view function is not called
Reject(endpoint) ==
    /\ OverLimit(endpoint)
    /\ resp' = TooManyRequests(endpoint)
    /\ UNCHANGED <<db, files, clock, admins, issued, nextJti, revoked, loggedOut, sess,
                   saved, hits>>

\* the limiter counts the request and lets it through
Hit(endpoint) ==
    /\ ~OverLimit(endpoint)
    /\ hits' = [hits EXCEPT ![endpoint] = @ + 1]

\* POST /api/auth/login behind its limiter
LimitedLogin(data) ==
    \/ Reject("login")
    \/ Hit("login") /\ LoginHandler(data)

\* POST /api/employees/<id>/upload-profile behind its limiter
LimitedUpload(w, tok, id, file, saveOk) ==
    \/ Admitted(tok) /\ sess[w].pc = "idle" /\ Reject("upload")
    \/ Hit("upload") /\ UploadHandler(w, tok, id, file, saveOk)

\* the one-minute window of an endpoint ends
WindowElapses(endpoint) ==
    /\ hits[endpoint] > 0
    /\ hits' = [hits EXCEPT ![endpoint] = 0]
    /\ UNCHANGED <<db, files, clock, admins, issued, nextJti, revoked, loggedOut, resp,
                   sess, saved>>

LimitLoginBodies == <<LoginBodies[1], LoginBodies[3]>>

NextLimit ==
    \/ \E i \in DOMAIN LimitLoginBodies : LimitedLogin(LimitLoginBodies[i])
    \/ \E tok \in issued : CreateEmployee(tok, CreateBodies[1])
    \/ \E w \in StoreWorkers, tok \in issued, id \in Ids, i \in {1, 2} :
          LimitedUpload(w, tok, id, UploadFiles[i], TRUE)
    \/ \E w \in StoreWorkers : CommitUploadStep(w)
    \/ \E endpoint \in LimitedEndpoints : WindowElapses(endpoint)

SpecLimit == Init /\ [][NextLimit]_vars

(***************************************************************************)
(* The page arithmetic of get_employees (lines 102-103 and 136-156) on a   *)
(* query that matches `total` rows: the rows are told apart by their rank  *)
(* in the ORDER BY, the page and per_page arguments are those of the       *)
(* query string.                                                           *)
(***************************************************************************)
MaxRows == 26
MaxPage == 4

PageInputs == {NoArg} \cup {IntArg(n) : n \in 0..MaxPage}
PerPageInputs == {NoArg} \cup {IntArg(n) : n \in {0 - 5, 0, 1, 10, 100, 101, 150}}

ListPage(total, page, per_page) ==
    /\ \E p \in {Paginate([k \in 1..total |-> k], ArgInt(page, PageDefault),
                           EffectivePerPage(ArgInt(per_page, PerPageDefault)))} :
          resp' = [Response("list", 0, 200, "", <<>>, FALSE, p.items)
                      EXCEPT !.pagination = p.meta,
                             !.query = [page |-> page, per_page |-> per_page]]
    /\ UNCHANGED <<db, files, clock, authVars, sess, saved>>

NextPage ==
    \E total \in 0..MaxRows, page \in PageInputs, per_page \in PerPageInputs :
        ListPage(total, page, per_page)

SpecPage == Init /\ [][NextPage]_vars

\* C14: a create, update, delete, restore or upload that fails at the store
\* (its INSERT or UPDATE is refused at commit) is answered 500 and leaves
\* the employees table exactly as it was before the request.
C14_StoreFailureRollsBack ==
    [][/\ resp'.code = 500 => db' = db
       /\ \A w \in Workers :
             (/\ sess[w].pc = "commit" /\ sess'[w].pc = "idle"
              /\ ~FlushUpdate(db, sess[w].id, sess[w].loaded, sess[w].emp).ok) =>
                (resp'.code = 500 /\ resp'.op = sess[w].op /\ db' = db)
       /\ \A tok \in issued, i \in DOMAIN CreateBodies :
             (/\ CreateEmployee(tok, CreateBodies[i])
              /\ DOMAIN CreateBodies[i] # {}
              /\ \E j \in DOMAIN db : db[j].email = Get(CreateBodies[i], "email", None)) =>
                (resp'.code = 500 /\ db' = db)]_vars

\* C14 witness: the commit of an upload has just been refused, after the
\* file was stored, and an employee is in the table.
C14_Witness ==
    /\ resp.op = "upload" /\ resp.code = 500
    /\ files # {} /\ db # <<>>

(***************************************************************************)
(* routes/auth.py: refresh, logout, profile, and the requests of several   *)
(* clients that present credentials at the same time                       *)
(***************************************************************************)
AuthError(op, tok, code) ==
    Response(op, tok.jti, code,
             IF code = 401 THEN "Unauthorized" ELSE "Unprocessable Entity",
             <<>>, FALSE, <<>>)

\* Admin.to_dict
AdminToDict(adm, id) ==
    [id |-> id, username |-> adm[id].username, email |-> adm[id].email,
     is_active |-> adm[id].is_active]

\* POST /api/auth/refresh
Refresh(tok) ==
    LET j == jwt_required(tok, TRUE, issued, revoked)
        access == Token(nextJti, "access", tok.sub)
    IN  /\ nextJti <= MaxJti + MaxRefresh
        /\ IF j # 200
           THEN /\ resp' = AuthError("refresh", tok, j)
                /\ UNCHANGED <<issued, nextJti>>
           ELSE IF ~ActiveAdmin(admins, tok.sub)
           THEN /\ resp' = AuthError("refresh", tok, 401)
                /\ UNCHANGED <<issued, nextJti>>
           ELSE /\ issued' = issued \cup {access}
                /\ nextJti' = nextJti + 1
                /\ resp' = Response("refresh", tok.jti, 200, "", <<>>, FALSE, <<access>>)
        /\ UNCHANGED <<db, clock, admins, revoked, loggedOut, sess, saved, files, hits>>

\* POST /api/auth/logout, the decorator: the credential is verified
BeginLogout(w, tok) ==
    LET j == jwt_required(tok, FALSE, issued, revoked)
    IN  /\ sess[w].pc = "idle"
        /\ IF j = 200
           THEN /\ sess' = [sess EXCEPT ![w] = Busy("logout", 0, tok, <<>>, <<>>)]
                /\ UNCHANGED resp
           ELSE /\ resp' = AuthError("logout", tok, j)
                /\ UNCHANGED sess
        /\ UNCHANGED <<db, clock, authVars, saved, files>>

\* POST /api/auth/logout, line 214: revoked_tokens.add(jti), then 200
LogoutAdd(w) ==
    LET jti == sess[w].tok.jti
    IN  /\ sess[w].pc = "commit" /\ sess[w].op = "logout"
        /\ revoked' = revoked \cup {jti}
        /\ loggedOut' = loggedOut \cup {jti}
        /\ resp' = Response("logout", jti, 200, "", <<>>, FALSE, <<>>)
        /\ sess' = [sess EXCEPT ![w] = Idle]
        /\ UNCHANGED <<db, clock, admins, issued, nextJti, saved, files, hits>>

\* GET /api/auth/profile
GetProfile(tok) ==
    LET j == jwt_required(tok, FALSE, issued, revoked)
    IN  /\ resp' = IF j # 200 THEN AuthError("profile", tok, j)
                   ELSE IF ~ActiveAdmin(admins, tok.sub) THEN AuthError("profile", tok, 401)
                   ELSE Response("profile", tok.jti, 200, "", <<>>, FALSE,
                                 <<AdminToDict(admins, tok.sub)>>)
        /\ UNCHANGED <<db, clock, authVars, sess, saved, files>>

\* the admins table changes outside the API (no endpoint writes it): an
\* admin is deactivated (Admin.is_active), or its row removed
DeactivateAdmin(a) ==
    /\ a \in DOMAIN admins
    /\ admins[a].is_active
    /\ admins' = [admins EXCEPT ![a].is_active = FALSE]
    /\ UNCHANGED <<db, files, clock, issued, nextJti, revoked, loggedOut, resp, sess, saved, hits>>

RemoveAdmin(a) ==
    /\ a \in DOMAIN admins
    /\ admins' = Drop(admins, a)
    /\ UNCHANGED <<db, files, clock, issued, nextJti, revoked, loggedOut, resp, sess, saved, hits>>

\* the requests of several clients, each with a credential or with none
NextAuth ==
    \/ \E a \in DOMAIN admins : DeactivateAdmin(a)
    \/ \E a \in DOMAIN admins : RemoveAdmin(a)
    \/ \E tok \in Credentials : CreateEmployee(tok, CreateBodies[1])
    \/ \E i \in DOMAIN LoginBodies : Login(LoginBodies[i])
    \/ \E tok \in Credentials : Refresh(tok)
    \/ \E w \in Workers, tok \in Credentials : BeginLogout(w, tok)
    \/ \E w \in Workers : LogoutAdd(w)
    \/ \E tok \in Credentials : GetProfile(tok)
    \/ \E tok \in Credentials, op \in ProtectedOps : GateRejects(tok, op)
    \/ \E tok \in Credentials, id \in Ids, include_deleted \in BOOLEAN :
          GetEmployee(tok, id, include_deleted)

SpecAuth == Init /\ [][NextAuth]_vars

\* a request that presents tok to an endpoint that takes an access credential
PresentsAccess(tok) ==
    \/ GetProfile(tok)
    \/ \E w \in Workers : BeginLogout(w, tok)
    \/ \E op \in ProtectedOps : GateRejects(tok, op)
    \/ \E id \in Ids, include_deleted \in BOOLEAN : GetEmployee(tok, id, include_deleted)

\* C10: once the logout of an access credential has completed, every later
\* request that presents it to an endpoint that takes an access credential is
\* answered 401, and refresh does not accept it; the revocation set never
\* loses an identifier, and it holds the identifier of every logout that has
\* completed, whatever other logouts were under way at the same time.
C10_LogoutRevokes ==
    /\ [](loggedOut \subseteq revoked)
    /\ [](\A tok \in issued : tok.jti \in loggedOut =>
             /\ jwt_required(tok, FALSE, issued, revoked) = 401
             /\ admin_required(tok, admins, issued, revoked) = 401)
    /\ [][revoked \subseteq revoked']_vars
    /\ [][\A tok \in issued :
             /\ (tok.jti \in loggedOut /\ PresentsAccess(tok)) => resp'.code = 401
             /\ (tok.jti \in loggedOut /\ Refresh(tok)) => resp'.code # 200]_vars

\* a credential the claim lists: none, or an access credential that is
\* revoked or whose admin is gone or inactive
Unaccepted(tok) ==
    \/ tok = NoToken
    \/ /\ tok.type = "access"
       /\ (tok.jti \in revoked \/ ~ActiveAdmin(admins, tok.sub))

\* a handler body behind admin_required runs for the request that presents tok
HandlerRuns(tok) ==
    \/ \E i \in DOMAIN CreateBodies : CreateEmployee(tok, CreateBodies[i])
    \/ \E id \in Ids, include_deleted \in BOOLEAN : GetEmployee(tok, id, include_deleted)

\* C11: a request to a protected endpoint with no credential, with a revoked
\* access credential, or with an access credential whose admin is gone or
\* inactive is answered 401 and the handler body does not run: the employees
\* table and the stored files are as before.
C11_GateShortCircuits ==
    /\ [](\A tok \in Credentials :
             Unaccepted(tok) => admin_required(tok, admins, issued, revoked) = 401)
    /\ [][\A tok \in Credentials : Unaccepted(tok) =>
             /\ ~HandlerRuns(tok)
             /\ (GetProfile(tok) \/ \E op \in ProtectedOps : GateRejects(tok, op)) =>
                   (resp'.code = 401 /\ db' = db /\ files' = files)]_vars

\* C11 witness: while an employee is stored, a request with an access
\* credential that is not revoked but whose admin is inactive has just been
\* answered 401 by a protected employee endpoint.
C11_Witness ==
    /\ resp.op \in ProtectedOps /\ resp.code = 401
    /\ resp.id # 0 /\ resp.id \notin revoked
    /\ \E tok \in issued : tok.jti = resp.id /\ tok.sub \in DOMAIN admins
                            /\ ~admins[tok.sub].is_active
    /\ db # <<>>

\* C12: login answers 200, with an access and a refresh credential that are
\* new, exactly when the identifier (surrounding whitespace removed) is the
\* username or the email of an active admin and the password matches the
\* hash stored for that admin; it answers 400 exactly when the identifier or
\* the password is missing or empty, and 401 otherwise; a 400 or a 401 issues
\* no credential.
C12_LoginOutcome ==
    [][\A i \in DOMAIN LoginBodies : Login(LoginBodies[i]) =>
          LET data == LoginBodies[i]
              ident == Strip(Get(data, "username_or_email", <<>>))
              password == Get(data, "password", <<>>)
              missing == ident = <<>> \/ password = <<>>
              fits == \E a \in DOMAIN admins :
                         /\ admins[a].is_active
                         /\ admins[a].username = ident \/ admins[a].email = ident
                         /\ HashPassword(password) = admins[a].password_hash
          IN  /\ resp'.code \in {200, 400, 401}
              /\ resp'.code = 400 <=> missing
              /\ resp'.code = 200 <=> (~missing /\ fits)
              /\ resp'.code = 200 =>
                    /\ Len(resp'.body) = 2
                    /\ resp'.body[1].type = "access" /\ resp'.body[2].type = "refresh"
                    /\ resp'.body[1].jti # resp'.body[2].jti
                    /\ {resp'.body[1], resp'.body[2]} \cap issued = {}
                    /\ issued' = issued \cup {resp'.body[1], resp'.body[2]}
                    /\ ActiveAdmin(admins, resp'.body[1].sub)
              /\ resp'.code # 200 => issued' = issued]_vars

\* C12 witness: a login has just been answered 200 and the two credentials
\* of its response are issued.
C12_Witness ==
    /\ resp.op = "login" /\ resp.code = 200
    /\ Len(resp.body) = 2 /\ {resp.body[1], resp.body[2]} \subseteq issued

\* the credential is a refresh credential that was issued and is not
\* revoked, and the admin it names exists and is active
ValidRefresh(tok) ==
    /\ tok \in issued /\ tok.type = "refresh" /\ tok.jti \notin revoked
    /\ ActiveAdmin(admins, tok.sub)

\* C13 as stated: refresh issues a new access credential if and only if the
\* credential presented is a valid refresh credential whose admin exists and
\* is active; otherwise it answers 401 and issues nothing.
C13_RefreshOutcome ==
    [][\A tok \in Credentials : Refresh(tok) =>
          IF ValidRefresh(tok)
          THEN /\ resp'.code = 200
               /\ \E new \in issued' \ issued :
                     /\ new.type = "access" /\ new.sub = tok.sub
                     /\ issued' = issued \cup {new}
          ELSE /\ resp'.code = 401
               /\ issued' = issued]_vars

\* what does hold of refresh: a new access credential if and only if the
\* credential is a valid refresh credential of an active admin; otherwise
\* nothing is issued, and the answer is 401 or, for an access credential, 422
RefreshIssuesIffValid ==
    [][\A tok \in Credentials : Refresh(tok) =>
          IF ValidRefresh(tok)
          THEN /\ resp'.code = 200
               /\ \E new \in issued' \ issued :
                     /\ new.type = "access" /\ new.sub = tok.sub
                     /\ issued' = issued \cup {new}
          ELSE /\ resp'.code = (IF tok.type = "access" THEN 422 ELSE 401)
               /\ issued' = issued]_vars

\* C10 witness: a request for the profile with a credential whose logout has
\* completed has just been answered 401, while the logout of another
\* credential is between its verification and its insertion.
C10_Witness ==
    /\ resp.op = "profile" /\ resp.code = 401 /\ resp.id \in loggedOut
    /\ \E w \in Workers : /\ sess[w].pc = "commit" /\ sess[w].op = "logout"
                          /\ sess[w].tok.jti # resp.id


\* C15: every 500 answer carries the fixed message of its handler and no
\* text of the exception that was caught, for every handler, create included.
C15_ServerErrorIsGeneric ==
    resp.code = 500 => resp.message = GenericMessage(resp.op)

\* what holds of the code: the 500 of every handler but create is generic,
\* and the 500 of create carries the text of the exception
ServerErrorGenericButCreate ==
    resp.code = 500 =>
        IF resp.op = "create"
        THEN resp.message \in {ExceptionText(c) : c \in {"hire_date", "salary", "not_null", "unique"}}
        ELSE resp.message = GenericMessage(resp.op)


\* C16: the pagination of a listing of T rows with page size S has
\* pages = ceil(T / S), has_next exactly when page < pages (rows remain
\* after this page) and has_prev exactly when page > 1.
C16_PageMetadata ==
    (resp.op = "list" /\ resp.code = 200) =>
        LET m == resp.pagination
        IN  /\ m.per_page >= 1
            /\ m.pages * m.per_page >= m.total
            /\ (m.pages - 1) * m.per_page < m.total \/ (m.pages = 0 /\ m.total = 0)
            /\ m.has_next <=> m.page < m.pages
            /\ m.has_next <=> m.page * m.per_page < m.total
            /\ m.has_prev <=> m.page > 1

\* C16 witness: 25 rows listed ten at a time, first page: three pages, a
\* next page and no previous one.
C16_Witness ==
    /\ resp.op = "list" /\ resp.pagination.total = 25 /\ resp.pagination.per_page = 10
    /\ resp.pagination.page = 1 /\ resp.pagination.pages = 3
    /\ resp.pagination.has_next /\ ~resp.pagination.has_prev
    /\ Len(resp.body) = 10

\* the page size the specification gives to a listing: per_page within
\* [1, 100], 10 when per_page is not given
ClampedPerPage(raw) ==
    IF ~raw.given THEN 10
    ELSE IF raw.value > 100 THEN 100
    ELSE IF raw.value < 1 THEN 1
    ELSE raw.value

\* C17: a listing uses the page size ClampedPerPage(per_page) and returns
\* no more items than that.
C17_PerPageClamped ==
    (resp.op = "list" /\ resp.code = 200) =>
        /\ resp.pagination.per_page = ClampedPerPage(resp.query.per_page)
        /\ Len(resp.body) <= ClampedPerPage(resp.query.per_page)

\* what holds of the code: a per_page above 100 gives 100, a per_page not
\* given gives 10, a per_page below 1 gives the 20 of paginate(), and no
\* more items are returned than the page size of the answer
PerPageAsCoded ==
    (resp.op = "list" /\ resp.code = 200) =>
        /\ resp.pagination.per_page =
               IF ~resp.query.per_page.given THEN 10
               ELSE IF resp.query.per_page.value > 100 THEN 100
               ELSE IF resp.query.per_page.value < 1 THEN 20
               ELSE resp.query.per_page.value
        /\ Len(resp.body) <= resp.pagination.per_page

\* C18: a listing asked for a page beyond the last one is answered 200
\* with no item and with the number of rows the query matches.
C18_PageBeyondLast ==
    (resp.op = "list" /\ resp.query.page.given
        /\ resp.query.page.value > resp.pagination.pages) =>
       /\ resp.code = 200 /\ resp.error = ""
       /\ resp.body = <<>>
       /\ resp.pagination.page = resp.query.page.value
       /\ resp.pagination.total = Cardinality(BaseQuery(db, resp.flag))

\* C18 witness: page 2 of a listing, one row a page, of a table whose one
\* row is on page 1.
C18_Witness ==
    /\ resp.op = "list" /\ resp.code = 200
    /\ resp.query.page = IntArg(2) /\ resp.pagination.pages = 1
    /\ resp.pagination.total = 1 /\ resp.body = <<>>
    /\ DOMAIN db # {}

RECURSIVE SumCounts(_)
SumCounts(counts) ==
    IF DOMAIN counts = {} THEN 0
    ELSE LET dept == CHOOSE x \in DOMAIN counts : TRUE
         IN  counts[dept] + SumCounts([x \in DOMAIN counts \ {dept} |-> counts[x]])

\* C19: the statistics count every row in total, the soft-deleted rows in
\* deleted, the other rows by status in active and inactive and by
\* department in departments; so total = active + inactive + deleted and
\* the department counts add up to active + inactive.
C19_StatsCounts ==
    (resp.op = "stats" /\ resp.code = 200) =>
        LET s == resp.body[1]
            live == {i \in DOMAIN db : ~db[i].is_deleted}
        IN  /\ s.total_employees = Cardinality(DOMAIN db)
            /\ s.deleted_employees = Cardinality(DOMAIN db \ live)
            /\ s.active_employees = Cardinality({i \in live : db[i].status = Active})
            /\ s.inactive_employees = Cardinality({i \in live : db[i].status = Inactive})
            /\ DOMAIN s.departments = {db[i].department : i \in live}
            /\ \A dept \in DOMAIN s.departments :
                  s.departments[dept] = Cardinality({i \in live : db[i].department = dept})
            /\ s.total_employees =
                  s.active_employees + s.inactive_employees + s.deleted_employees
            /\ SumCounts(s.departments) = s.active_employees + s.inactive_employees

\* C19 witness: statistics of a table with a soft-deleted row and a row
\* that is not deleted.
C19_Witness ==
    /\ resp.op = "stats" /\ resp.code = 200
    /\ resp.body[1].deleted_employees = 1
    /\ resp.body[1].active_employees + resp.body[1].inactive_employees = 1
    /\ resp.body[1].total_employees = 2


\* an update of employee id is about to ask for an email that another row
\* of the table holds
AsksTakenEmail(id, data) ==
    /\ id \in get_active_query(db)
    /\ "email" \in DOMAIN data /\ data["email"] # NonString
    /\ \E j \in DOMAIN db \ {id} : db[j].email = Lower(Strip(data["email"]))

\* C20: an update whose email is held by another employee is answered 409,
\* not 400, and the email of the employee stays as it was.
C20_DuplicateEmailConflict ==
    [][\A id \in Ids, i \in DOMAIN UpdateBodies :
          AsksTakenEmail(id, UpdateBodies[i]) =>
             \A tok \in issued :
                UpdateEmployee(tok, id, UpdateBodies[i]) =>
                   /\ resp'.code = 409
                   /\ db'[id].email = db[id].email]_vars

\* what holds of the code: the update is answered 400 "Validation Error"
\* with the error of the email field, and the table stays as it was
DuplicateEmailIsValidationError ==
    [][\A id \in Ids, i \in DOMAIN UpdateBodies :
          AsksTakenEmail(id, UpdateBodies[i]) =>
             \A tok \in issued :
                UpdateEmployee(tok, id, UpdateBodies[i]) =>
                   /\ resp'.code = 400 /\ resp'.error = "Validation Error"
                   /\ db' = db]_vars


\* a create input that every validator of utils/validators.py accepts
ValidCreateInput(x) ==
    /\ {"name", "email", "department", "position", "salary", "hire_date"} \subseteq DOMAIN x
    /\ \A k \in {"name", "email", "department", "position", "hire_date"} : x[k] # NonString
    /\ validate_name(Strip(x.name)).ok
    /\ validate_email(Lower(Strip(x.email)))
    /\ validate_department(Strip(x.department)).ok
    /\ validate_position(Strip(x.position)).ok
    /\ validate_salary(x.salary).ok
    /\ validate_hire_date(Strip(x.hire_date)).ok

\* the answer to a get of employee id shows the fields of the input x
ShowsInput(d, id, x) ==
    \E out \in {get_employee(d, id, TRUE).resp} :
       /\ out.code = 200
       /\ \E f \in {out.body[1].fields} :
            /\ f.name = x.name /\ f.email = x.email
            /\ f.department = x.department /\ f.position = x.position
            /\ f.salary = validate_salary(x.salary).value
            /\ f.hire_date = isoformat(validate_hire_date(Strip(x.hire_date)).value)
            /\ f.status = Active /\ f.is_deleted = FALSE /\ f.deleted_at = NoTime

\* C21: a create of a valid input, with an email that no row holds,
\* succeeds, and a get of the id it returns shows the fields of the input
\* with status Active, is_deleted false and deleted_at null.
C21_CreateGetRoundTrip ==
    [][\A i \in DOMAIN CreateBodies :
          (/\ ValidCreateInput(CreateBodies[i])
           /\ \A j \in DOMAIN db : db[j].email # CreateBodies[i].email) =>
             \A tok \in issued :
                CreateEmployee(tok, CreateBodies[i]) =>
                   /\ resp'.code = 201
                   /\ ShowsInput(db', resp'.id, CreateBodies[i])]_vars

\* what holds of the code: the round trip of the valid inputs whose
\* hire_date is written YYYY-MM-DD, the one format create parses
CreateRoundTripYmd ==
    [][\A i \in DOMAIN CreateBodies :
          (/\ ValidCreateInput(CreateBodies[i])
           /\ StrptimeYmd(CreateBodies[i].hire_date).ok
           /\ \A j \in DOMAIN db : db[j].email # CreateBodies[i].email) =>
             \A tok \in issued :
                CreateEmployee(tok, CreateBodies[i]) =>
                   /\ resp'.code = 201
                   /\ ShowsInput(db', resp'.id, CreateBodies[i])]_vars


\* an upload for an employee that is not deleted, with a named file
UploadOf(id, file) ==
    /\ id \in get_active_query(db)
    /\ file.present /\ file.filename # <<>>

\* C22: an upload whose extension is not png, jpg, jpeg, gif or webp is
\* answered 400 with storage untouched: no directory and no file is created
\* or removed, and no row changes.
C22_BadExtensionRefused ==
    [][\A id \in Ids, i \in DOMAIN UploadFiles :
          (UploadOf(id, UploadFiles[i]) /\ ~allowed_file(UploadFiles[i].filename)) =>
             \A w \in Workers, tok \in issued, saveOk \in BOOLEAN :
                BeginUpload(w, tok, id, UploadFiles[i], saveOk) =>
                   /\ resp'.code = 400
                   /\ files' = files /\ db' = db /\ sess' = sess]_vars

\* C22 witness: a file of a wrong type has just been refused for an
\* employee whose picture is still in storage.
C22_Witness ==
    /\ resp.op = "upload" /\ resp.code = 400
    /\ resp.message = "Invalid file type. Allowed types: png, jpg, jpeg, gif, webp"
    /\ resp.id \in DOMAIN db
    /\ db[resp.id].profile_picture_path # None
    /\ db[resp.id].profile_picture_path \in files

\* C23: an upload with an allowed extension whose bytes are no image is
\* refused: nothing is stored or removed and no row changes.
C23_NotAnImageRefused ==
    [][\A id \in Ids, i \in DOMAIN UploadFiles :
          (/\ UploadOf(id, UploadFiles[i]) /\ allowed_file(UploadFiles[i].filename)
           /\ ~UploadFiles[i].image) =>
             \A w \in Workers, tok \in issued, saveOk \in BOOLEAN :
                BeginUpload(w, tok, id, UploadFiles[i], saveOk) =>
                   /\ resp'.code = 400
                   /\ files' = files /\ db' = db /\ sess' = sess]_vars


\* C24: once no upload is under way, the picture path of every employee
\* that has one names a file in storage.
C24_PicturePathNamesFile ==
    (\A w \in Workers : sess[w].pc = "idle") =>
        \A id \in DOMAIN db :
           db[id].profile_picture_path # None => db[id].profile_picture_path \in files


\* the limiter has counted five requests of the endpoint in this window
FiveCounted(endpoint) == hits[endpoint] >= 5

C26_SalaryInRange ==
    \A id \in DOMAIN db : db[id].salary > 0 /\ db[id].salary <= 999999999

\* what holds of the code: an update never stores a salary out of range
\* (validate_salary), so a salary out of range is one that create stored
UpdateKeepsSalaryInRange ==
    [][\A id \in DOMAIN db :
          (id \in DOMAIN db' /\ db'[id].salary # db[id].salary /\ resp'.op = "update") =>
             (db'[id].salary > 0 /\ db'[id].salary <= 999999999)]_vars


\* a create is about to ask for an email that a row of the table holds
CreatesTakenEmail(data) ==
    /\ DOMAIN data # {}
    /\ \E j \in DOMAIN db : db[j].email = Get(data, "email", None)

\* C27: no two rows, soft-deleted or not, have the same email: a create or
\* an update that asks for the email of another row, even a soft-deleted
\* one, is refused and changes nothing, and restore never answers Conflict.
C27_EmailUniqueOverAllRows ==
    /\ [](\A i, j \in DOMAIN db : i # j => db[i].email # db[j].email)
    /\ [][/\ \A id \in Ids, i \in DOMAIN UpdateBodies :
                AsksTakenEmail(id, UpdateBodies[i]) =>
                   \A tok \in issued :
                      UpdateEmployee(tok, id, UpdateBodies[i]) =>
                         (resp'.code = 400 /\ db' = db)
          /\ \A i \in DOMAIN CreateBodies :
                CreatesTakenEmail(CreateBodies[i]) =>
                   \A tok \in issued :
                      CreateEmployee(tok, CreateBodies[i]) =>
                         (resp'.code = 500 /\ db' = db)
          /\ resp'.op = "restore" => resp'.error # "Conflict"]_vars

\* C27 witness: an update has just been refused because it asked for the
\* email of the other row, which is soft-deleted.
C27_Witness ==
    /\ resp.op = "update" /\ resp.code = 400
    /\ resp.errors = << <<"email", "Employee with this email already exists">> >>
    /\ resp.id \in get_active_query(db)
    /\ get_deleted_query(db) # {}
    /\ \A j \in DOMAIN db \ {resp.id} : db[j].is_deleted


\* a refresh credential of the admin whose access credential tok was logged out
RefreshOfLoggedOut(r) ==
    /\ r \in issued /\ r.type = "refresh"
    /\ \E tok \in issued : tok.type = "access" /\ tok.sub = r.sub /\ tok.jti \in loggedOut

\* C28: logout revokes the access credential presented and nothing else; the
\* refresh credential of the same login is never revoked, the refresh
\* endpoint still accepts it while its admin is active, and the access
\* credential it then issues is accepted by the protected endpoints.
C28_LogoutKeepsRefresh ==
    /\ [](\A r \in issued : r.type = "refresh" => r.jti \notin revoked)
    /\ [](\A r \in issued : (RefreshOfLoggedOut(r) /\ ActiveAdmin(admins, r.sub)) =>
             jwt_required(r, TRUE, issued, revoked) = 200)
    /\ [][\A w \in Workers : LogoutAdd(w) =>
             /\ sess[w].tok.type = "access"
             /\ revoked' = revoked \cup {sess[w].tok.jti}]_vars
    /\ [][\A r \in issued : (RefreshOfLoggedOut(r) /\ ActiveAdmin(admins, r.sub) /\ Refresh(r)) =>
             /\ resp'.code = 200
             /\ Len(resp'.body) = 1
             /\ resp'.body[1].type = "access"
             /\ resp'.body[1] \notin issued
             /\ admin_required(resp'.body[1], admins', issued', revoked') = 200]_vars

\* the access credential of a login was logged out, and the refresh
\* credential of that login has just been exchanged for an access credential
\* that the protected endpoints accept
C28_Witness ==
    /\ resp.op = "refresh" /\ resp.code = 200
    /\ \E tok \in issued : tok.type = "access" /\ tok.jti \in loggedOut
                           /\ tok.sub = resp.body[1].sub
    /\ resp.body[1].jti \notin revoked
    /\ Admitted(resp.body[1])


(***************************************************************************)
(* The requests of one client that write a row, upload included, handled   *)
(* one after the other: no request starts while one is under way.          *)
(***************************************************************************)
Quiet == \A w \in Workers : sess[w].pc = "idle"

SerialUpdateBodies == <<UpdateBodies[2], UpdateBodies[5]>>

NextSerial ==
    \/ Login(LoginBodies[1])
    \/ \E tok \in issued, i \in 1..2 : Quiet /\ CreateEmployee(tok, CreateBodies[i])
    \/ \E tok \in issued, id \in Ids, i \in DOMAIN SerialUpdateBodies :
          Quiet /\ UpdateEmployee(tok, id, SerialUpdateBodies[i])
    \/ \E tok \in issued, id \in Ids, permanent \in BOOLEAN :
          Quiet /\ DeleteEmployee(tok, id, permanent)
    \/ \E tok \in issued, id \in Ids : Quiet /\ RestoreEmployee(tok, id)
    \/ \E tok \in issued, id \in Ids, saveOk \in BOOLEAN :
          BeginUpload(1, tok, id, UploadFiles[1], saveOk)
    \/ CommitUploadStep(1)

SpecSerial == Init /\ [][NextSerial]_vars

\* the request of this step is an update, a delete or an upload for id
AddressedTo(tok, id) ==
    \/ \E i \in DOMAIN SerialUpdateBodies : UpdateEmployee(tok, id, SerialUpdateBodies[i])
    \/ \E permanent \in BOOLEAN : DeleteEmployee(tok, id, permanent)
    \/ \E saveOk \in BOOLEAN : BeginUpload(1, tok, id, UploadFiles[1], saveOk)

\* C29: an update, a soft or permanent delete, or an upload for a
\* soft-deleted employee is answered 404 and leaves the row, and the stored
\* files, as they were; a row that is soft-deleted stays as the soft delete
\* left it, deleted_at included, until a restore succeeds on it.
C29_SoftDeletedRowsFrozen ==
    /\ [](\A id \in get_deleted_query(db) :
             /\ id \in DOMAIN saved
             /\ db[id] = soft_delete(saved[id], db[id].deleted_at))
    /\ [][\A id \in get_deleted_query(db) :
             /\ id \in DOMAIN db'
             /\ db'[id] # db[id] => (resp'.op = "restore" /\ resp'.code = 200 /\ resp'.id = id)
             /\ \A tok \in issued : AddressedTo(tok, id) =>
                   /\ resp'.code = 404 /\ resp'.id = id
                   /\ resp'.op \in {"update", "delete", "upload"}
                   /\ db' = db /\ files' = files /\ sess' = sess]_vars

\* an upload for an employee that has a picture and was then soft-deleted
\* has just been answered 404
C29_Witness ==
    /\ resp.op = "upload" /\ resp.code = 404
    /\ resp.id \in get_deleted_query(db)
    /\ db[resp.id].profile_picture_path # None
    /\ db[resp.id].profile_picture_path \in files


\* C30: in every reachable state, an employee row has is_deleted = true if
\* and only if its deleted_at is not null.
C30_DeletedIffDeletedAt ==
    \A id \in DOMAIN db : db[id].is_deleted <=> db[id].deleted_at # NoTime

\* a restore has just succeeded on one row while another row is soft-deleted
C30_Witness ==
    /\ resp.op = "restore" /\ resp.code = 200
    /\ resp.id \in get_active_query(db) /\ db[resp.id].deleted_at = NoTime
    /\ \E j \in get_deleted_query(db) : db[j].deleted_at # NoTime

====
